---- MODULE Spec2Model ----
(***************************************************************************)
(* File-backed note and calculator storage (NoteManager,                   *)
(* CalculatorManager): every operation re-reads the JSON file, mutates the *)
(* array in memory and rewrites the whole file.                            *)
(*                                                                         *)
(* Strings are sequences of one-character strings.  A file is a record     *)
(* [exists, data] whose data is the sequence of JSON tokens it holds.      *)
(* A parsed JSON array is a sequence, a parsed JSON object a function from *)
(* property names to values (property order is not kept).                  *)
(***************************************************************************)
EXTENDS Integers, Sequences, FiniteSets, TLC

VARIABLES
    app,        \* which root router is mounted: "notes" or "calculators"
    dirExists,  \* the data directory (paths.ts dataDir) exists
    noteFile,   \* data/notes.json
    calcFile,   \* data/calculators.json
    noteCache,  \* NoteManager.notes of each NoteManager instance
    last,       \* the last completed call: operation, instance, arguments, result,
                \* and whether it found no storage file (created)
    writers,    \* of each process that adds step by step: where it is in its add,
                \* the record it adds, the array it holds, what the add returned
    auth        \* middleware/auth.ts: the registered user record and loggedIn

vars == <<app, dirExists, noteFile, calcFile, noteCache, last, writers, auth>>

\* Cap on the number of records an add may grow a collection to.
MaxRecs == 2

\* NoteManager instances over the same storage file: the one notesRouter
\* constructs, and a second one constructed over the same path.
Insts == {1, 2}
Router == 1

\* Argument values the callers pass.
Titles == {<<"a">>, <<"A">>, <<"b">>}
TitlesTwo == {<<"a">>, <<"A">>}
Bodies == {<<"x">>, <<"y">>}
Oids == {1, 2, 7}
Manufacturers == {<<"m">>}
Grades == {0, 10}
BatteryTypes == {1, 3}

(***************************************************************************)
(* JSON text as tokens                                                     *)
(***************************************************************************)
LB == [t |-> "["]
RB == [t |-> "]"]
LC == [t |-> "{"]
RC == [t |-> "}"]
CM == [t |-> ","]
CL == [t |-> ":"]
WS == [t |-> "ws"]
NUL == [t |-> "null"]
KeyTok(name) == [t |-> "key", name |-> name]
StrTok(s) == [t |-> "str", s |-> s]
NumTok(n) == [t |-> "num", n |-> n]

\* binds the value v to the parameter of F (a local constant of the source)
With(v, F(_)) == F(v)

\* raw.trim(): leading and trailing whitespace removed
RECURSIVE TrimLeft(_)
TrimLeft(raw) ==
    IF raw # <<>> /\ Head(raw) = WS THEN TrimLeft(Tail(raw)) ELSE raw

RECURSIVE TrimRight(_)
TrimRight(raw) ==
    IF raw # <<>> /\ raw[Len(raw)] = WS
    THEN TrimRight(SubSeq(raw, 1, Len(raw) - 1))
    ELSE raw

Trim(raw) == TrimRight(TrimLeft(raw))

(***************************************************************************)
(* JSON.stringify(value, null, 2)                                          *)
(***************************************************************************)
StringifyNote(note) ==
    <<LC, WS, KeyTok("title"), CL, WS, StrTok(note.title), CM, WS,
      KeyTok("body"), CL, WS, StrTok(note.body), WS, RC>>

\* serialization that writes the batteryType under the grade property too
StringifyCalculator_GradeLost(c) ==
    <<LC, WS, KeyTok("oid"), CL, WS, NumTok(c.oid), CM, WS,
      KeyTok("manufacturer"), CL, WS, StrTok(c.manufacturer), CM, WS,
      KeyTok("grade"), CL, WS, NumTok(c.batteryType), CM, WS,
      KeyTok("batteryType"), CL, WS, NumTok(c.batteryType), WS, RC>>

StringifyCalculator(c) ==
    <<LC, WS, KeyTok("oid"), CL, WS, NumTok(c.oid), CM, WS,
      KeyTok("manufacturer"), CL, WS, StrTok(c.manufacturer), CM, WS,
      KeyTok("grade"), CL, WS, NumTok(c.grade), CM, WS,
      KeyTok("batteryType"), CL, WS, NumTok(c.batteryType), WS, RC>>

StringifyObject(obj) ==
    IF "title" \in DOMAIN obj THEN StringifyNote(obj) ELSE StringifyCalculator(obj)

RECURSIVE StringifyItems(_)
StringifyItems(arr) ==
    IF arr = <<>> THEN <<>>
    ELSE IF Len(arr) = 1 THEN <<WS>> \o StringifyObject(arr[1]) \o <<WS>>
    ELSE <<WS>> \o StringifyObject(arr[1]) \o <<CM>> \o StringifyItems(Tail(arr))

JSONstringify(arr) == <<LB>> \o StringifyItems(arr) \o <<RB>>

(***************************************************************************)
(* JSON.parse: a result [ok, val, next]; ok = FALSE is a SyntaxError.      *)
(* val is [k |-> "arr"|"obj"|"str"|"num"|"null", v |-> payload].           *)
(***************************************************************************)
RECURSIVE SkipWs(_, _)
SkipWs(toks, i) ==
    IF i <= Len(toks) /\ toks[i] = WS THEN SkipWs(toks, i + 1) ELSE i

ParseFail == [ok |-> FALSE, val |-> [k |-> "null"], next |-> 0]

RECURSIVE ParseValue(_, _)
RECURSIVE ParseItems(_, _, _)
RECURSIVE ParseMembers(_, _, _)

\* the elements of an array after "[" or after a ","
ParseItems(toks, i, acc) ==
    With(ParseValue(toks, i), LAMBDA e :
        IF ~e.ok THEN ParseFail
        ELSE LET j == SkipWs(toks, e.next)
                 acc2 == Append(acc, e.val.v) IN
             IF j > Len(toks) THEN ParseFail
             ELSE IF toks[j] = RB
                  THEN [ok |-> TRUE, val |-> [k |-> "arr", v |-> acc2], next |-> j + 1]
             ELSE IF toks[j] = CM THEN ParseItems(toks, j + 1, acc2)
             ELSE ParseFail)

\* the members of an object after "{" or after a ","
ParseMembers(toks, i, acc) ==
    LET j == SkipWs(toks, i) IN
    IF j + 1 > Len(toks) \/ toks[j].t # "key" \/ toks[j + 1] # CL THEN ParseFail
    ELSE With(ParseValue(toks, j + 2), LAMBDA e :
             IF ~e.ok THEN ParseFail
             ELSE LET m == SkipWs(toks, e.next)
                      acc2 == (toks[j].name :> e.val.v) @@ acc IN
                  IF m > Len(toks) THEN ParseFail
                  ELSE IF toks[m] = RC
                       THEN [ok |-> TRUE, val |-> [k |-> "obj", v |-> acc2], next |-> m + 1]
                  ELSE IF toks[m] = CM THEN ParseMembers(toks, m + 1, acc2)
                  ELSE ParseFail)

ParseValue(toks, i) ==
    LET j == SkipWs(toks, i) IN
    IF j > Len(toks) THEN ParseFail
    ELSE LET tok == toks[j] IN
         IF tok.t = "str" THEN [ok |-> TRUE, val |-> [k |-> "str", v |-> tok.s], next |-> j + 1]
         ELSE IF tok.t = "num" THEN [ok |-> TRUE, val |-> [k |-> "num", v |-> tok.n], next |-> j + 1]
         ELSE IF tok = NUL THEN [ok |-> TRUE, val |-> [k |-> "null", v |-> 0], next |-> j + 1]
         ELSE IF tok = LB
              THEN LET m == SkipWs(toks, j + 1) IN
                   IF m <= Len(toks) /\ toks[m] = RB
                   THEN [ok |-> TRUE, val |-> [k |-> "arr", v |-> <<>>], next |-> m + 1]
                   ELSE ParseItems(toks, j + 1, <<>>)
         ELSE IF tok = LC
              THEN LET m == SkipWs(toks, j + 1) IN
                   IF m <= Len(toks) /\ toks[m] = RC
                   THEN [ok |-> TRUE, val |-> [k |-> "obj", v |-> <<>>], next |-> m + 1]
                   ELSE ParseMembers(toks, j + 1, <<>>)
         ELSE ParseFail

\* the whole text must be one JSON value
JSONparse(raw) ==
    With(ParseValue(raw, 1), LAMBDA e :
        IF e.ok /\ SkipWs(raw, e.next) = Len(raw) + 1 THEN e ELSE ParseFail)

(***************************************************************************)
(* The file system: the data directory and one file per resource           *)
(***************************************************************************)
NoFile == [exists |-> FALSE, data |-> <<>>]
FileOf(data) == [exists |-> TRUE, data |-> data]

\* fs.writeFileSync(storagePath, data, "utf8"): the file holds exactly data
writeFileSync(file, data) == FileOf(data)

\* fs.readFileSync(storagePath, "utf8"): [ok, raw]; a missing file throws
readFileSync(file) ==
    IF file.exists THEN [ok |-> TRUE, raw |-> file.data]
    ELSE [ok |-> FALSE, raw |-> <<>>]

\* what fs.writeFileSync leaves when it throws: it opens the file with flag
\* "w", which truncates it, and then writes.  fault "open": the open is
\* refused and the file is as it was; "write": nothing was written after the
\* truncation; "short": the write stopped before the last token of data.
writeFileSyncFails(file, data, fault) ==
    IF fault = "open" THEN file
    ELSE IF fault = "write" THEN FileOf(<<>>)
    ELSE FileOf(SubSeq(data, 1, Len(data) - 1))

Faults == {"open", "write", "short"}

(***************************************************************************)
(* Results of the managers' public methods                                 *)
(***************************************************************************)
Null == [k |-> "null"]
RecOf(r) == [k |-> "rec", rec |-> r]
BoolOf(b) == [k |-> "bool", bool |-> b]
ListOf(l) == [k |-> "list", list |-> l]
\* the call ended with an exception instead of a return value
Thrown == [k |-> "throw"]

\* the key property of the records of the mounted resource
KeyField == IF app = "notes" THEN "title" ELSE "oid"

(***************************************************************************)
(* middleware/auth.ts: the module state [users, loggedIn] and its          *)
(* functions; main.ts registers the user before the server starts.         *)
(***************************************************************************)
\* let users = null; let loggedIn = false
AuthAtLoad == [users |-> Null, loggedIn |-> FALSE]

setUsers(a, nextUsers) == [a EXCEPT !.users = nextUsers]

setLoggedIn(a, value) == [a EXCEPT !.loggedIn = value]

isLoggedIn(a) == a.loggedIn

\* isValidUser that compares the email only
isValidUser_EmailOnly(a, email, password) ==
    IF a.users = Null THEN FALSE ELSE a.users.email = email

isValidUser(a, email, password) ==
    IF a.users = Null THEN FALSE
    ELSE a.users.email = email /\ a.users.password = password

\* res.locals after the middleware
authMiddleware(a) == [isAuthenticated |-> isLoggedIn(a)]

DevEmail == <<"d", "e", "v", "@", "d", "e", "v">>
DevPassword == <<"d", "e", "v", "d", "e", "v">>

\* main(): setUsers(users) before server(port)
AuthAtStart == setUsers(AuthAtLoad, [email |-> DevEmail, password |-> DevPassword])

\* a process that is not inside an add
Idle == [pc |-> "idle", rec |-> Null, arr |-> <<>>, ret |-> Null]

\* Array.prototype.find: index of the first element with the key, 0 if none
RECURSIVE FindFrom(_, _, _, _)
FindFrom(arr, field, key, i) ==
    IF i > Len(arr) THEN 0
    ELSE IF field \in DOMAIN arr[i] /\ arr[i][field] = key THEN i
    ELSE FindFrom(arr, field, key, i + 1)

\* a find that returns the last element with the key
Find_LastMatch(arr, field, key) ==
    IF \E n \in 1..Len(arr) : field \in DOMAIN arr[n] /\ arr[n][field] = key
    THEN CHOOSE n \in 1..Len(arr) :
             /\ field \in DOMAIN arr[n] /\ arr[n][field] = key
             /\ \A m \in (n + 1)..Len(arr) :
                    ~(field \in DOMAIN arr[m] /\ arr[m][field] = key)
    ELSE 0

Find(arr, field, key) == FindFrom(arr, field, key, 1)

\* Array.prototype.filter with the predicate element[field] !== key
RECURSIVE FilterOut(_, _, _)
FilterOut(arr, field, key) ==
    IF arr = <<>> THEN <<>>
    ELSE IF field \in DOMAIN Head(arr) /\ Head(arr)[field] = key
         THEN FilterOut(Tail(arr), field, key)
         ELSE <<Head(arr)>> \o FilterOut(Tail(arr), field, key)

(***************************************************************************)
(* NoteManager.  A context c holds the data directory, the storage file    *)
(* and this.notes.  Every method yields the context it leaves and its      *)
(* return value.                                                           *)
(***************************************************************************)
\* the context of a call: directory, storage file, this.notes, the fault the
\* file system answers writes with, and whether the call has thrown
NoteCtxOf(dir, file, notes) ==
    [dir |-> dir, file |-> file, notes |-> notes, fault |-> "none", thrown |-> FALSE]

\* fs.writeFileSync in a call: on a fault it throws and the statements after
\* it do not run
WriteFile(c, data) ==
    IF c.fault = "none" THEN [c EXCEPT !.file = writeFileSync(c.file, data)]
    ELSE [c EXCEPT !.file = writeFileSyncFails(c.file, data, c.fault),
                   !.thrown = TRUE]

NoteEnsureStorage(c) ==
    LET c1 == IF ~c.dir THEN [c EXCEPT !.dir = TRUE] ELSE c IN
    IF ~c1.file.exists THEN WriteFile(c1, <<LB, RB>>) ELSE c1

\* the array a storage text denotes, [] when it is blank, unparseable or no array
ArrayOfText(raw) ==
    IF Trim(raw) = <<>> THEN <<>>
    ELSE With(JSONparse(raw), LAMBDA parsed :
             IF ~parsed.ok THEN <<>>
             ELSE IF parsed.val.k = "arr" THEN parsed.val.v ELSE <<>>)

\* loadNotes that serves this.notes instead of reading the file
loadNotes_Cached(c) == NoteEnsureStorage(c)

\* loadNotes that keeps this.notes when the file cannot be read as JSON
loadNotes_KeepsCacheOnError(c) ==
    With(NoteEnsureStorage(c), LAMBDA c1 :
        LET rd == readFileSync(c1.file) IN
        IF c1.thrown \/ ~rd.ok \/ Trim(rd.raw) = <<>> THEN c1
        ELSE With(JSONparse(rd.raw), LAMBDA parsed :
                 IF parsed.ok /\ parsed.val.k = "arr"
                 THEN [c1 EXCEPT !.notes = parsed.val.v]
                 ELSE c1))

loadNotes(c) ==
    With(NoteEnsureStorage(c), LAMBDA c1 :
        LET rd == readFileSync(c1.file) IN
        IF c1.thrown THEN c1
        ELSE IF ~rd.ok THEN [c1 EXCEPT !.notes = <<>>]
        ELSE [c1 EXCEPT !.notes = ArrayOfText(rd.raw)])

\* saveNotes that initializes the storage and writes nothing
saveNotes_NoWrite(c) == NoteEnsureStorage(c)

\* saveNotes that catches the error of the write and returns normally
saveNotes_SwallowsFault(c) ==
    With(NoteEnsureStorage(c), LAMBDA c1 :
        [WriteFile(c1, JSONstringify(c1.notes)) EXCEPT !.thrown = FALSE])

saveNotes(c) ==
    With(NoteEnsureStorage(c), LAMBDA c1 :
        IF c1.thrown THEN c1 ELSE WriteFile(c1, JSONstringify(c1.notes)))

\* what a method that ran in context c to its return statement hands back
Return(c, value) == [ctx |-> c, ret |-> IF c.thrown THEN Thrown ELSE value]

getNotes(c) ==
    With(loadNotes(c), LAMBDA c1 : Return(c1, ListOf(c1.notes)))

getNoteByTitle(c, title) ==
    With(loadNotes(c), LAMBDA c1 :
        LET notes == c1.notes
            match == Find(notes, "title", title) IN
        Return(c1, IF match = 0 THEN Null ELSE RecOf(notes[match])))

\* addNote without the collision check
addNote_NoDuplicateCheck(c, title, body) ==
    With(loadNotes(c), LAMBDA c1 :
        LET notes == c1.notes
            newNote == [title |-> title, body |-> body] IN
        IF c1.thrown THEN Return(c1, Null)
        ELSE Return(saveNotes([c1 EXCEPT !.notes = Append(notes, newNote)]),
                    RecOf(newNote)))

addNote(c, title, body) ==
    With(loadNotes(c), LAMBDA c1 :
        LET notes == c1.notes
            duplicate == Find(notes, "title", title)
            newNote == [title |-> title, body |-> body] IN
        IF c1.thrown \/ duplicate # 0 THEN Return(c1, Null)
        ELSE Return(saveNotes([c1 EXCEPT !.notes = Append(notes, newNote)]),
                    RecOf(newNote)))

\* updateNote that removes the note and appends the updated one
updateNote_MovesToEnd(c, title, body) ==
    With(loadNotes(c), LAMBDA c1 :
        LET notes == c1.notes
            note == Find(notes, "title", title) IN
        IF c1.thrown \/ note = 0 THEN Return(c1, Null)
        ELSE LET updated == [notes[note] EXCEPT !.body = body] IN
             Return(saveNotes([c1 EXCEPT !.notes =
                        Append(FilterOut(notes, "title", title), updated)]),
                    RecOf(updated)))

updateNote(c, title, body) ==
    With(loadNotes(c), LAMBDA c1 :
        LET notes == c1.notes
            note == Find(notes, "title", title) IN
        IF c1.thrown \/ note = 0 THEN Return(c1, Null)
        ELSE LET updated == [notes[note] EXCEPT !.body = body] IN
             Return(saveNotes([c1 EXCEPT !.notes = [notes EXCEPT ![note] = updated]]),
                    RecOf(updated)))

\* removeNote that persists and reports success whether or not a note matched
removeNote_AlwaysWrites(c, title) ==
    With(loadNotes(c), LAMBDA c1 :
        LET remaining == FilterOut(c1.notes, "title", title) IN
        IF c1.thrown THEN Return(c1, Null)
        ELSE Return(saveNotes([c1 EXCEPT !.notes = remaining]), BoolOf(TRUE)))

removeNote(c, title) ==
    With(loadNotes(c), LAMBDA c1 :
        LET notes == c1.notes
            remaining == FilterOut(notes, "title", title) IN
        IF c1.thrown \/ Len(remaining) = Len(notes) THEN Return(c1, BoolOf(FALSE))
        ELSE Return(saveNotes([c1 EXCEPT !.notes = remaining]), BoolOf(TRUE)))

\* new NoteManager(): this.notes = this.loadNotes()
NoteManagerNew(dir, file) == loadNotes(NoteCtxOf(dir, file, <<>>))

(***************************************************************************)
(* CalculatorManager.  A context c is [dir, file, fault, thrown]; the      *)
(* class keeps no collection between calls.                                *)
(***************************************************************************)
CalcCtxOf(dir, file) ==
    [dir |-> dir, file |-> file, fault |-> "none", thrown |-> FALSE]

\* ensureStorage that resets the file to the empty array on every call
CalcEnsureStorage_AlwaysResets(c) ==
    [c EXCEPT !.dir = TRUE, !.file = writeFileSync(c.file, <<LB, RB>>)]

CalcEnsureStorage(c) ==
    LET c1 == IF ~c.dir THEN [c EXCEPT !.dir = TRUE] ELSE c IN
    IF ~c1.file.exists THEN WriteFile(c1, <<LB, RB>>) ELSE c1

\* readAll that resets a file it cannot read as an array to the empty array
readAll_Repairs(c) ==
    With(CalcEnsureStorage(c), LAMBDA c1 :
        LET rd == readFileSync(c1.file) IN
        IF c1.thrown \/ ~rd.ok THEN [ctx |-> c1, arr |-> <<>>]
        ELSE IF Trim(rd.raw) # <<>> /\ JSONparse(rd.raw).ok
                 /\ JSONparse(rd.raw).val.k = "arr"
        THEN [ctx |-> c1, arr |-> JSONparse(rd.raw).val.v]
        ELSE [ctx |-> WriteFile(c1, <<LB, RB>>), arr |-> <<>>])

\* [ctx, arr]: the context left and the array returned
readAll(c) ==
    With(CalcEnsureStorage(c), LAMBDA c1 :
        LET rd == readFileSync(c1.file) IN
        IF c1.thrown \/ ~rd.ok THEN [ctx |-> c1, arr |-> <<>>]
        ELSE [ctx |-> c1, arr |-> ArrayOfText(rd.raw)])

writeAll(c, calculators) ==
    With(CalcEnsureStorage(c), LAMBDA c1 :
        IF c1.thrown THEN c1 ELSE WriteFile(c1, JSONstringify(calculators)))

getCalculators(c) ==
    With(readAll(c), LAMBDA r : Return(r.ctx, ListOf(r.arr)))

getCalculatorByOid(c, oid) ==
    With(readAll(c), LAMBDA r :
        LET match == Find(r.arr, "oid", oid) IN
        Return(r.ctx, IF match = 0 THEN Null ELSE RecOf(r.arr[match])))

\* addCalculator that puts the new record first
addCalculator_Prepends(c, oid, manufacturer, grade, batteryType) ==
    With(readAll(c), LAMBDA r :
        LET calculators == r.arr
            duplicate == Find(calculators, "oid", oid)
            newCalculator == [oid |-> oid, manufacturer |-> manufacturer,
                              grade |-> grade, batteryType |-> batteryType] IN
        IF r.ctx.thrown \/ duplicate # 0 THEN Return(r.ctx, Null)
        ELSE Return(writeAll(r.ctx, <<newCalculator>> \o calculators),
                    RecOf(newCalculator)))

\* addCalculator that replaces the stored record on a collision
addCalculator_Overwrite(c, oid, manufacturer, grade, batteryType) ==
    With(readAll(c), LAMBDA r :
        LET calculators == r.arr
            duplicate == Find(calculators, "oid", oid)
            newCalculator == [oid |-> oid, manufacturer |-> manufacturer,
                              grade |-> grade, batteryType |-> batteryType] IN
        IF r.ctx.thrown THEN Return(r.ctx, Null)
        ELSE IF duplicate # 0
        THEN Return(writeAll(r.ctx, [calculators EXCEPT ![duplicate] = newCalculator]),
                    Null)
        ELSE Return(writeAll(r.ctx, Append(calculators, newCalculator)),
                    RecOf(newCalculator)))

addCalculator(c, oid, manufacturer, grade, batteryType) ==
    With(readAll(c), LAMBDA r :
        LET calculators == r.arr
            duplicate == Find(calculators, "oid", oid)
            newCalculator == [oid |-> oid, manufacturer |-> manufacturer,
                              grade |-> grade, batteryType |-> batteryType] IN
        IF r.ctx.thrown \/ duplicate # 0 THEN Return(r.ctx, Null)
        ELSE Return(writeAll(r.ctx, Append(calculators, newCalculator)),
                    RecOf(newCalculator)))

editCalculator(c, oid, manufacturer, grade, batteryType) ==
    With(readAll(c), LAMBDA r :
        LET calculators == r.arr
            calculator == Find(calculators, "oid", oid) IN
        IF r.ctx.thrown \/ calculator = 0 THEN Return(r.ctx, Null)
        ELSE LET updated == [calculators[calculator] EXCEPT
                                 !.manufacturer = manufacturer,
                                 !.grade = grade,
                                 !.batteryType = batteryType] IN
             Return(writeAll(r.ctx, [calculators EXCEPT ![calculator] = updated]),
                    RecOf(updated)))

\* deleteCalculator that keeps only the records in front of the first match
deleteCalculator_CutsTail(c, oid) ==
    With(readAll(c), LAMBDA r :
        LET calculators == r.arr
            at == Find(calculators, "oid", oid) IN
        IF r.ctx.thrown \/ at = 0 THEN Return(r.ctx, BoolOf(FALSE))
        ELSE Return(writeAll(r.ctx, SubSeq(calculators, 1, at - 1)), BoolOf(TRUE)))

deleteCalculator(c, oid) ==
    With(readAll(c), LAMBDA r :
        LET calculators == r.arr
            remaining == FilterOut(calculators, "oid", oid) IN
        IF r.ctx.thrown \/ Len(remaining) = Len(calculators)
        THEN Return(r.ctx, BoolOf(FALSE))
        ELSE Return(writeAll(r.ctx, remaining), BoolOf(TRUE)))

(***************************************************************************)
(* Form values: a field of a request body is absent or a string.           *)
(***************************************************************************)
Absent == [given |-> FALSE, s |-> <<>>]
Field(s) == [given |-> TRUE, s |-> s]

\* String.prototype.trim on a string of characters
RECURSIVE TrimStart(_)
TrimStart(s) == IF s # <<>> /\ Head(s) = " " THEN TrimStart(Tail(s)) ELSE s

RECURSIVE TrimEnd(_)
TrimEnd(s) ==
    IF s # <<>> /\ s[Len(s)] = " " THEN TrimEnd(SubSeq(s, 1, Len(s) - 1)) ELSE s

TrimStr(s) == TrimEnd(TrimStart(s))

\* value?.trim() ?? ""
TrimOrEmpty(value) == IF value.given THEN TrimStr(value.s) ELSE <<>>

\* value ?? ""
OrEmpty(value) == IF value.given THEN value.s ELSE <<>>

(***************************************************************************)
(* Number(string): the string as a numeric literal, then the double        *)
(* nearest to its value.                                                   *)
(***************************************************************************)
DigitChars ==
    <<"0", "1", "2", "3", "4", "5", "6", "7", "8", "9", "a", "b", "c", "d", "e", "f">>
UpperDigitChars ==
    <<"0", "1", "2", "3", "4", "5", "6", "7", "8", "9", "A", "B", "C", "D", "E", "F">>

\* position of x in seq, 0 if it is not in it
IndexOf(seq, x) ==
    IF \E i \in 1..Len(seq) : seq[i] = x
    THEN CHOOSE i \in 1..Len(seq) : seq[i] = x /\ \A j \in 1..(i - 1) : seq[j] # x
    ELSE 0

\* the value of a digit character, 99 for any other character
DigitVal(ch) ==
    IF IndexOf(DigitChars, ch) # 0 THEN IndexOf(DigitChars, ch) - 1
    ELSE IF IndexOf(UpperDigitChars, ch) # 0 THEN IndexOf(UpperDigitChars, ch) - 1
    ELSE 99

\* s is a non-empty run of digits of the radix
IsDigits(s, radix) == s # <<>> /\ \A i \in 1..Len(s) : DigitVal(s[i]) < radix

RECURSIVE IntOf(_, _)
\* the integer a run of digits denotes in the radix
IntOf(s, radix) ==
    IF s = <<>> THEN 0
    ELSE IntOf(SubSeq(s, 1, Len(s) - 1), radix) * radix + DigitVal(s[Len(s)])

RECURSIVE StripLeadingZeros(_)
StripLeadingZeros(s) ==
    IF s # <<>> /\ Head(s) = "0" THEN StripLeadingZeros(Tail(s)) ELSE s

RECURSIVE StripTrailingZeros(_)
StripTrailingZeros(s) ==
    IF s # <<>> /\ s[Len(s)] = "0"
    THEN StripTrailingZeros(SubSeq(s, 1, Len(s) - 1))
    ELSE s

\* the largest integer the model computes with (2^31 - 1), in digits and in
\* characters of a literal
MaxIntDigits == 9
MaxExponentChars == 4
ExponentCap == 10000

NaNLiteral == [k |-> "nan"]
InfinityChars == <<"I", "n", "f", "i", "n", "i", "t", "y">>

\* the value of the exponent digits, capped
ExponentOf(expDigits) ==
    With(StripLeadingZeros(expDigits), LAMBDA digits :
        IF Len(digits) > MaxExponentChars THEN ExponentCap ELSE IntOf(digits, 10))

\* the literal of integer digits, fraction digits and exponent: its value is
\* the integer of the significant digits sig times 10^exp
DecimalOf(neg, intPart, fracPart, exponent) ==
    With(StripLeadingZeros(intPart \o fracPart), LAMBDA digits :
        With(StripTrailingZeros(digits), LAMBDA sig :
            [k |-> "dec", neg |-> neg, sig |-> sig,
             exp |-> exponent - Len(fracPart) + (Len(digits) - Len(sig))]))

\* the mantissa digits [. digits] with the exponent already read
MantissaLiteral(neg, mant, exponent) ==
    With(IndexOf(mant, "."), LAMBDA dot :
        With(IF dot = 0 THEN mant ELSE SubSeq(mant, 1, dot - 1), LAMBDA intPart :
            With(IF dot = 0 THEN <<>> ELSE SubSeq(mant, dot + 1, Len(mant)),
                 LAMBDA fracPart :
                IF /\ intPart # <<>> \/ fracPart # <<>>
                   /\ intPart # <<>> => IsDigits(intPart, 10)
                   /\ fracPart # <<>> => IsDigits(fracPart, 10)
                THEN DecimalOf(neg, intPart, fracPart, exponent)
                ELSE NaNLiteral)))

\* the exponent part [sign] digits after the e
ExponentLiteral(neg, mant, expo) ==
    With(IF expo # <<>> /\ Head(expo) \in {"+", "-"} THEN Tail(expo) ELSE expo,
         LAMBDA expDigits :
        IF ~IsDigits(expDigits, 10) THEN NaNLiteral
        ELSE IF Head(expo) = "-"
             THEN MantissaLiteral(neg, mant, 0 - ExponentOf(expDigits))
             ELSE MantissaLiteral(neg, mant, ExponentOf(expDigits)))

\* a decimal literal without sign: digits [. digits] [e [sign] digits]
DecimalLiteral(s, neg) ==
    With(IF IndexOf(s, "e") # 0 THEN IndexOf(s, "e") ELSE IndexOf(s, "E"), LAMBDA ePos :
        IF ePos = 0 THEN MantissaLiteral(neg, s, 0)
        ELSE ExponentLiteral(neg, SubSeq(s, 1, ePos - 1), SubSeq(s, ePos + 1, Len(s))))

\* StringToNumber's grammar on a trimmed string: "" is 0; 0x, 0o, 0b
\* literals carry no sign; anything else that is no decimal literal is NaN
Literal(s) ==
    IF s = <<>> THEN [k |-> "dec", neg |-> FALSE, sig |-> <<>>, exp |-> 0]
    ELSE IF Len(s) >= 2 /\ s[1] = "0" /\ s[2] \in {"x", "X", "o", "O", "b", "B"}
    THEN With(SubSeq(s, 3, Len(s)), LAMBDA digits :
             With(IF s[2] \in {"x", "X"} THEN 16
                  ELSE IF s[2] \in {"o", "O"} THEN 8 ELSE 2, LAMBDA radix :
                 IF IsDigits(digits, radix)
                 THEN [k |-> "radix", radix |-> radix,
                       digits |-> StripLeadingZeros(digits)]
                 ELSE NaNLiteral))
    ELSE With(IF Head(s) \in {"+", "-"} THEN Tail(s) ELSE s, LAMBDA body :
             IF body = InfinityChars THEN [k |-> "inf", neg |-> Head(s) = "-"]
             ELSE DecimalLiteral(body, Head(s) = "-"))

\* a run of digits padded with zeros or cut to n digits
PadTo(s, n) ==
    [i \in 1..n |-> IF i <= Len(s) THEN s[i] ELSE "0"]

\* a <= b for two digit runs of equal length
RECURSIVE DigitsLeq(_, _)
DigitsLeq(a, b) ==
    IF a = <<>> THEN TRUE
    ELSE IF DigitVal(Head(a)) # DigitVal(Head(b))
         THEN DigitVal(Head(a)) < DigitVal(Head(b))
         ELSE DigitsLeq(Tail(a), Tail(b))

\* Doubles: the significant digits a double tells apart, the first 15 digits
\* of the largest value that rounds to a finite double (about 1.797e308) and
\* of the largest that rounds to zero (half the least double, about 2.47e-324)
DoubleDigits == 15
MaxFiniteOrder == 308
MaxFiniteDigits == <<"1", "7", "9", "7", "6", "9", "3", "1", "3", "4", "8", "6", "2", "3", "1">>
MinOrder == 0 - 324
ZeroDigits == <<"2", "4", "7", "0", "3", "2", "8", "2", "2", "9", "2", "0", "6", "2", "3">>

RECURSIVE Pow10(_)
Pow10(n) == IF n = 0 THEN 1 ELSE 10 * Pow10(n - 1)

IntNumber(n) == [k |-> "int", n |-> n]
\* an integer-valued double the model does not compute with
BigNumber == [k |-> "bigint"]
\* a finite double that is no integer
FracNumber == [k |-> "frac"]
InfNumber == [k |-> "inf"]
NaN == [k |-> "nan"]

\* the bits of a digit of the radix, and the bits of the integers computed
RadixBits(radix) == IF radix = 16 THEN 4 ELSE IF radix = 8 THEN 3 ELSE 1
MaxIntBits == 28

\* the double of a decimal literal whose leading digit has the given order
\* and whose first DoubleDigits digits are lead
DecimalToDouble(lit, order, lead) ==
    IF order > MaxFiniteOrder
           \/ (order = MaxFiniteOrder /\ ~DigitsLeq(lead, MaxFiniteDigits))
    THEN InfNumber
    ELSE IF order < MinOrder \/ (order = MinOrder /\ DigitsLeq(lead, ZeroDigits))
    THEN IntNumber(0)
    ELSE IF lit.exp < 0 THEN FracNumber
    ELSE IF order < MaxIntDigits
    THEN IntNumber((IF lit.neg THEN 0 - 1 ELSE 1) * IntOf(lit.sig, 10) * Pow10(lit.exp))
    ELSE BigNumber

\* the double of a literal (-0 is taken as 0).  A literal of more than
\* DoubleDigits significant digits may round to an integer its value is not;
\* the literals of the requests are shorter.
ToDouble(lit) ==
    IF lit.k = "nan" THEN NaN
    ELSE IF lit.k = "inf" THEN InfNumber
    ELSE IF lit.k = "radix"
    THEN IF Len(lit.digits) * RadixBits(lit.radix) <= MaxIntBits
         THEN IntNumber(IntOf(lit.digits, lit.radix))
         ELSE BigNumber
    ELSE IF lit.sig = <<>> THEN IntNumber(0)
    ELSE DecimalToDouble(lit, lit.exp + Len(lit.sig) - 1, PadTo(lit.sig, DoubleDigits))

JSNumber(s) == ToDouble(Literal(TrimStr(s)))

\* Number.isInteger
NumberIsInteger(num) == num.k \in {"int", "bigint"}

(***************************************************************************)
(* CalculatorController                                                    *)
(***************************************************************************)
gradeMin == 0
gradeMax == 10
batteryMin == 1
batteryMax == 3

\* parseInt(value) of a form or URL value: null or an integer-valued number
parseInt(value) ==
    IF ~value.given THEN Null
    ELSE With(TrimStr(value.s), LAMBDA trimmed :
             IF trimmed = <<>> THEN Null
             ELSE With(ToDouble(Literal(trimmed)), LAMBDA parsed :
                      IF ~NumberIsInteger(parsed) THEN Null ELSE parsed))

\* isIntInRange without the upper limit
isIntInRange_NoMax(value, min, max) ==
    NumberIsInteger(value) /\ (value.k = "bigint" \/ value.n >= min)

\* a number too large for the model is outside every range of the controller
isIntInRange(value, min, max) ==
    NumberIsInteger(value) /\ value.k = "int" /\ value.n >= min /\ value.n <= max

validateFields(manufacturer, grade, batteryType) ==
    IF manufacturer = <<>> \/ grade = Null \/ batteryType = Null THEN FALSE
    ELSE IF ~isIntInRange(grade, gradeMin, gradeMax)
            \/ ~isIntInRange(batteryType, batteryMin, batteryMax)
    THEN FALSE
    ELSE TRUE

\* parseFormBody that keeps the raw values trimmed
parseFormBody_TrimsRaw(body) ==
    [oidRaw |-> TrimOrEmpty(body.oid),
     gradeRaw |-> TrimOrEmpty(body.grade),
     batteryTypeRaw |-> TrimOrEmpty(body.batteryType),
     manufacturer |-> TrimOrEmpty(body.manufacturer),
     oid |-> parseInt(body.oid),
     grade |-> parseInt(body.grade),
     batteryType |-> parseInt(body.batteryType)]

parseFormBody(body) ==
    [oidRaw |-> OrEmpty(body.oid),
     gradeRaw |-> OrEmpty(body.grade),
     batteryTypeRaw |-> OrEmpty(body.batteryType),
     manufacturer |-> TrimOrEmpty(body.manufacturer),
     oid |-> parseInt(body.oid),
     grade |-> parseInt(body.grade),
     batteryType |-> parseInt(body.batteryType)]

\* String(n) of an integer
RECURSIVE NatString(_)
NatString(n) ==
    IF n < 10 THEN <<DigitChars[n + 1]>>
    ELSE NatString(n \div 10) \o <<DigitChars[(n % 10) + 1]>>

String(n) == IF n < 0 THEN <<"-">> \o NatString(0 - n) ELSE NatString(n)

NoValues == [k |-> "none"]
FormValues(oid, manufacturer, grade, batteryType) ==
    [k |-> "values", oid |-> oid, manufacturer |-> manufacturer,
     grade |-> grade, batteryType |-> batteryType]

Redirect(to) == [kind |-> "redirect", to |-> to]

\* renderForm: the values a stored calculator gives, overridden by the values
\* handed in
CalcRenderForm(mode, calculator, values, error) ==
    With(IF values # NoValues THEN values
         ELSE IF calculator = Null THEN FormValues(<<>>, <<>>, <<>>, <<>>)
         ELSE FormValues(String(calculator.rec.oid), calculator.rec.manufacturer,
                         String(calculator.rec.grade),
                         String(calculator.rec.batteryType)), LAMBDA shown :
        [kind |-> "form", mode |-> mode, oid |-> shown.oid,
         manufacturer |-> shown.manufacturer, grade |-> shown.grade,
         batteryType |-> shown.batteryType, error |-> error])

\* the outcome of a request: the storage context left, the manager methods
\* called, the response
Handled(c, called, resp) == [ctx |-> c, called |-> called, resp |-> resp]

\* the values echoed after a rejection, and after a duplicate oid
RawValues(parsedForm) ==
    FormValues(parsedForm.oidRaw, parsedForm.manufacturer,
               parsedForm.gradeRaw, parsedForm.batteryTypeRaw)

ParsedValues(parsedForm) ==
    FormValues(String(parsedForm.oid.n), parsedForm.manufacturer,
               String(parsedForm.grade.n), String(parsedForm.batteryType.n))

\* validateFields on the parsed form
Validation(parsedForm) ==
    validateFields(parsedForm.manufacturer, parsedForm.grade, parsedForm.batteryType)

\* postCreate that stores the calculator before it looks at the validation
CalcPostCreate_StoresFirst(c, body) ==
    With(parseFormBody(body), LAMBDA parsedForm :
        IF parsedForm.oid = Null \/ parsedForm.grade = Null
               \/ parsedForm.batteryType = Null
        THEN Handled(c, <<>>,
                 CalcRenderForm("Add", Null, RawValues(parsedForm), TRUE))
        ELSE With(addCalculator(c, parsedForm.oid.n, parsedForm.manufacturer,
                                parsedForm.grade.n, parsedForm.batteryType.n),
                  LAMBDA r :
                 IF r.ret = Null \/ ~Validation(parsedForm)
                 THEN Handled(r.ctx, <<"addCalculator">>,
                          CalcRenderForm("Add", Null, ParsedValues(parsedForm), TRUE))
                 ELSE Handled(r.ctx, <<"addCalculator">>, Redirect("/calculators"))))

CalcPostCreate(c, body) ==
    With(parseFormBody(body), LAMBDA parsedForm :
        IF parsedForm.oid = Null \/ parsedForm.grade = Null
               \/ parsedForm.batteryType = Null \/ ~Validation(parsedForm)
        THEN Handled(c, <<>>,
                 CalcRenderForm("Add", Null, RawValues(parsedForm), TRUE))
        ELSE With(addCalculator(c, parsedForm.oid.n, parsedForm.manufacturer,
                                parsedForm.grade.n, parsedForm.batteryType.n),
                  LAMBDA r :
                 IF r.ret = Null
                 THEN Handled(r.ctx, <<"addCalculator">>,
                          CalcRenderForm("Add", Null, ParsedValues(parsedForm), TRUE))
                 ELSE Handled(r.ctx, <<"addCalculator">>, Redirect("/calculators"))))

CalcGetEdit(c, oid) ==
    With(parseInt(Field(oid)), LAMBDA parsedOid :
        IF parsedOid = Null THEN Handled(c, <<>>, Redirect("/calculators"))
        ELSE With(getCalculatorByOid(c, parsedOid.n), LAMBDA r :
                 IF r.ret = Null
                 THEN Handled(r.ctx, <<"getCalculatorByOid">>, Redirect("/calculators"))
                 ELSE Handled(r.ctx, <<"getCalculatorByOid">>,
                          CalcRenderForm("Edit", r.ret, NoValues, FALSE))))

CalcPostDelete(c, oid) ==
    With(parseInt(Field(oid)), LAMBDA parsedOid :
        IF parsedOid = Null THEN Handled(c, <<>>, Redirect("/calculators"))
        ELSE With(deleteCalculator(c, parsedOid.n), LAMBDA r :
                 Handled(r.ctx, <<"deleteCalculator">>, Redirect("/calculators"))))

\* postEdit that adds the calculator when none of the oid is stored
CalcPostEditOf_Upserts(c, parsedOid, parsedForm) ==
    IF ~Validation(parsedForm) \/ parsedForm.grade = Null
           \/ parsedForm.batteryType = Null
    THEN With(getCalculatorByOid(c, parsedOid.n), LAMBDA r :
             Handled(r.ctx, <<"getCalculatorByOid">>,
                 CalcRenderForm("Edit", r.ret,
                     FormValues(String(parsedOid.n), parsedForm.manufacturer,
                                parsedForm.gradeRaw, parsedForm.batteryTypeRaw), TRUE)))
    ELSE With(editCalculator(c, parsedOid.n, parsedForm.manufacturer,
                             parsedForm.grade.n, parsedForm.batteryType.n), LAMBDA r :
             IF r.ret # Null
             THEN Handled(r.ctx, <<"editCalculator">>, Redirect("/calculators"))
             ELSE With(addCalculator(r.ctx, parsedOid.n, parsedForm.manufacturer,
                                     parsedForm.grade.n, parsedForm.batteryType.n),
                       LAMBDA a :
                      Handled(a.ctx, <<"editCalculator", "addCalculator">>,
                              Redirect("/calculators"))))

\* postEdit once the oid of the URL is parsed
CalcPostEditOf(c, parsedOid, parsedForm) ==
    IF ~Validation(parsedForm) \/ parsedForm.grade = Null
           \/ parsedForm.batteryType = Null
    THEN With(getCalculatorByOid(c, parsedOid.n), LAMBDA r :
             Handled(r.ctx, <<"getCalculatorByOid">>,
                 CalcRenderForm("Edit", r.ret,
                     FormValues(String(parsedOid.n), parsedForm.manufacturer,
                                parsedForm.gradeRaw, parsedForm.batteryTypeRaw), TRUE)))
    ELSE With(editCalculator(c, parsedOid.n, parsedForm.manufacturer,
                             parsedForm.grade.n, parsedForm.batteryType.n), LAMBDA r :
             Handled(r.ctx, <<"editCalculator">>, Redirect("/calculators")))

CalcPostEdit(c, oid, body) ==
    With(parseInt(Field(oid)), LAMBDA parsedOid :
        IF parsedOid = Null THEN Handled(c, <<>>, Redirect("/calculators"))
        ELSE With(parseFormBody(body), LAMBDA parsedForm :
                 CalcPostEditOf(c, parsedOid, parsedForm)))

(***************************************************************************)
(* NoteController                                                          *)
(***************************************************************************)
\* renderForm: options.note?.title ?? "", options.note?.body ?? ""
NoteRenderForm(mode, note, error) ==
    [kind |-> "form", mode |-> mode,
     noteTitle |-> IF note = Null THEN <<>> ELSE note.rec.title,
     noteBody |-> IF note = Null THEN <<>> ELSE note.rec.body,
     error |-> error]

\* postCreate once title and body are trimmed; title is what is stored
NotePostCreateOf(c, title, cleanedTitle, cleanedBody) ==
    IF cleanedTitle = <<>> \/ cleanedBody = <<>>
    THEN Handled(c, <<>>,
             NoteRenderForm("Add", RecOf([title |-> cleanedTitle, body |-> cleanedBody]),
                            TRUE))
    ELSE With(addNote(c, title, cleanedBody), LAMBDA r :
             IF r.ret = Null
             THEN Handled(r.ctx, <<"addNote">>,
                      NoteRenderForm("Add",
                          RecOf([title |-> cleanedTitle, body |-> cleanedBody]), TRUE))
             ELSE Handled(r.ctx, <<"addNote">>, Redirect("/notes/index")))

\* postCreate that stores the title as submitted
NotePostCreate_RawTitle(c, body) ==
    NotePostCreateOf(c, OrEmpty(body.title), TrimOrEmpty(body.title),
                     TrimOrEmpty(body.body))

NotePostCreate(c, body) ==
    NotePostCreateOf(c, TrimOrEmpty(body.title), TrimOrEmpty(body.title),
                     TrimOrEmpty(body.body))

NoteGetUpdate(c, title) ==
    With(getNoteByTitle(c, title), LAMBDA r :
        IF r.ret = Null
        THEN Handled(r.ctx, <<"getNoteByTitle">>, Redirect("/notes/index"))
        ELSE Handled(r.ctx, <<"getNoteByTitle">>, NoteRenderForm("Edit", r.ret, FALSE)))

NoteGetDelete(c, title) ==
    With(removeNote(c, title), LAMBDA r :
        Handled(r.ctx, <<"removeNote">>, Redirect("/notes/index")))

NotePostUpdate(c, title, body) ==
    With(TrimOrEmpty(body.body), LAMBDA cleanedBody :
        IF cleanedBody = <<>>
        THEN With(getNoteByTitle(c, title), LAMBDA r :
                 Handled(r.ctx, <<"getNoteByTitle">>,
                     NoteRenderForm("Edit",
                         IF r.ret # Null THEN r.ret
                         ELSE RecOf([title |-> title, body |-> cleanedBody]), TRUE)))
        ELSE With(updateNote(c, title, cleanedBody), LAMBDA r :
                 Handled(r.ctx, <<"updateNote">>, Redirect("/notes/index"))))

(***************************************************************************)
(* State machine.  One step is one completed synchronous call on a manager *)
(* instance, or a change made to the storage from outside the program.     *)
(***************************************************************************)
\* Texts an outside writer leaves that are not a JSON array.
EmptyText == <<>>
BlankText == <<WS, WS>>
TruncatedText == <<LB, LC, KeyTok("title"), CL>>
ObjectText == <<LC, WS, KeyTok("title"), CL, StrTok(<<"a">>), RC>>

InvalidJSONTexts == {TruncatedText}
NonArrayTexts == {ObjectText}
MalformedTexts == {EmptyText, BlankText} \cup InvalidJSONTexts \cup NonArrayTexts

\* the storage paths the constructors build: path.join(dataDir, storageFile)
NoteStoragePath == "notes.json"

\* a CalculatorManager constructed over the file of the notes
CalcStoragePath_NotesFile == "notes.json"

CalcStoragePath == "calculators.json"

\* the file of the data directory a path names, and the write of it
FileAt(path) == IF path = "notes.json" THEN noteFile ELSE calcFile

StoreAt(path, file) ==
    /\ noteFile' = IF path = "notes.json" THEN file ELSE noteFile
    /\ calcFile' = IF path = "calculators.json" THEN file ELSE calcFile

NoteCtx(i) == NoteCtxOf(dirExists, FileAt(NoteStoragePath), noteCache[i])
CalcCtx == CalcCtxOf(dirExists, FileAt(CalcStoragePath))

\* the collection a list() on the routed manager would return now
NoteList == getNotes(NoteCtx(Router)).ret.list
CalcList == getCalculators(CalcCtx).ret.list

Init ==
    /\ app \in {"notes", "calculators"}
    /\ calcFile = NoFile
    /\ LET c == NoteManagerNew(FALSE, NoFile) IN
       IF app = "notes"
       THEN /\ dirExists = c.dir
            /\ noteFile = c.file
            /\ noteCache = [i \in Insts |-> c.notes]
       ELSE /\ dirExists = FALSE
            /\ noteFile = NoFile
            /\ noteCache = [i \in Insts |-> <<>>]
    /\ last = [op |-> "init"]
    /\ writers = [w \in Insts |-> Idle]
    /\ auth = AuthAtStart

\* what the statements of a NoteManager method of instance i that ran in
\* context c leave on the disk and in this.notes
NoteEffect(i, c) ==
    /\ dirExists' = c.dir
    /\ StoreAt(NoteStoragePath, c.file)
    /\ noteCache' = [noteCache EXCEPT ![i] = c.notes]
    /\ UNCHANGED <<app, auth>>

\* the effect of a completed NoteManager call r = [ctx, ret] on instance i
NoteDone(i, r) == NoteEffect(i, r.ctx) /\ UNCHANGED writers

\* the effect of a completed CalculatorManager call r = [ctx, ret]
CalcEffect(c) ==
    /\ dirExists' = c.dir
    /\ StoreAt(CalcStoragePath, c.file)
    /\ UNCHANGED <<app, auth, noteCache>>

CalcDone(r) == CalcEffect(r.ctx) /\ UNCHANGED writers

NoteGetNotes(i) ==
    /\ app = "notes"
    /\ With(getNotes(NoteCtx(i)), LAMBDA r :
           /\ NoteDone(i, r)
           /\ last' = [op |-> "list", created |-> ~noteFile.exists,
                       inst |-> i, ret |-> r.ret])

NoteGetByTitle(i, title) ==
    /\ app = "notes"
    /\ With(getNoteByTitle(NoteCtx(i), title), LAMBDA r :
           /\ NoteDone(i, r)
           /\ last' = [op |-> "get", created |-> ~noteFile.exists,
                       inst |-> i, key |-> title, ret |-> r.ret])

NoteAdd(i, title, body) ==
    /\ app = "notes"
    /\ Len(NoteList) < MaxRecs
    /\ With(addNote(NoteCtx(i), title, body), LAMBDA r :
           /\ NoteDone(i, r)
           /\ last' = [op |-> "add", created |-> ~noteFile.exists,
                       inst |-> i, key |-> title,
                       val |-> [body |-> body], ret |-> r.ret])

NoteUpdate(i, title, body) ==
    /\ app = "notes"
    /\ With(updateNote(NoteCtx(i), title, body), LAMBDA r :
           /\ NoteDone(i, r)
           /\ last' = [op |-> "update", created |-> ~noteFile.exists,
                       inst |-> i, key |-> title,
                       val |-> [body |-> body], ret |-> r.ret])

NoteRemove(i, title) ==
    /\ app = "notes"
    /\ With(removeNote(NoteCtx(i), title), LAMBDA r :
           /\ NoteDone(i, r)
           /\ last' = [op |-> "delete", created |-> ~noteFile.exists,
                       inst |-> i, key |-> title, ret |-> r.ret])

\* a process restart: instance i is constructed anew over the same file
NoteRestart(i) ==
    /\ app = "notes"
    /\ LET c == NoteManagerNew(dirExists, noteFile) IN
       /\ NoteDone(i, [ctx |-> c, ret |-> Null])
       /\ last' = [op |-> "new", created |-> ~noteFile.exists, inst |-> i]

CalcGetCalculators ==
    /\ app = "calculators"
    /\ With(getCalculators(CalcCtx), LAMBDA r :
           /\ CalcDone(r)
           /\ last' = [op |-> "list", created |-> ~calcFile.exists,
                       ret |-> r.ret])

CalcGetByOid(oid) ==
    /\ app = "calculators"
    /\ With(getCalculatorByOid(CalcCtx, oid), LAMBDA r :
           /\ CalcDone(r)
           /\ last' = [op |-> "get", created |-> ~calcFile.exists,
                       key |-> oid, ret |-> r.ret])

CalcAdd(oid, manufacturer, grade, batteryType) ==
    /\ app = "calculators"
    /\ Len(CalcList) < MaxRecs
    /\ With(addCalculator(CalcCtx, oid, manufacturer, grade, batteryType), LAMBDA r :
           /\ CalcDone(r)
           /\ last' = [op |-> "add", created |-> ~calcFile.exists,
                       key |-> oid,
                       val |-> [manufacturer |-> manufacturer, grade |-> grade,
                                batteryType |-> batteryType],
                       ret |-> r.ret])

CalcEdit(oid, manufacturer, grade, batteryType) ==
    /\ app = "calculators"
    /\ With(editCalculator(CalcCtx, oid, manufacturer, grade, batteryType), LAMBDA r :
           /\ CalcDone(r)
           /\ last' = [op |-> "update", created |-> ~calcFile.exists,
                       key |-> oid,
                       val |-> [manufacturer |-> manufacturer, grade |-> grade,
                                batteryType |-> batteryType],
                       ret |-> r.ret])

CalcDelete(oid) ==
    /\ app = "calculators"
    /\ With(deleteCalculator(CalcCtx, oid), LAMBDA r :
           /\ CalcDone(r)
           /\ last' = [op |-> "delete", created |-> ~calcFile.exists,
                       key |-> oid, ret |-> r.ret])

\* the storage file of the running application is deleted from outside
ExtDeleteFile ==
    /\ IF app = "notes"
       THEN noteFile.exists /\ noteFile' = NoFile /\ UNCHANGED calcFile
       ELSE calcFile.exists /\ calcFile' = NoFile /\ UNCHANGED noteFile
    /\ last' = [op |-> "ext", what |-> "rmfile"]
    /\ UNCHANGED <<app, auth, dirExists, noteCache, writers>>

\* the data directory is deleted from outside, with the files in it
ExtDeleteDir ==
    /\ dirExists
    /\ dirExists' = FALSE
    /\ noteFile' = NoFile
    /\ calcFile' = NoFile
    /\ last' = [op |-> "ext", what |-> "rmdir"]
    /\ UNCHANGED <<app, auth, noteCache, writers>>

\* the storage file is overwritten from outside with a text that is no JSON array
ExtCorrupt(text) ==
    /\ dirExists
    /\ IF app = "notes"
       THEN noteFile' = FileOf(text) /\ UNCHANGED calcFile
       ELSE calcFile' = FileOf(text) /\ UNCHANGED noteFile
    /\ last' = [op |-> "ext", what |-> "write"]
    /\ UNCHANGED <<app, auth, dirExists, noteCache, writers>>

NoteNext(i, titles) ==
    \/ NoteGetNotes(i)
    \/ \E title \in titles : NoteGetByTitle(i, title)
    \/ \E title \in titles, body \in Bodies : NoteAdd(i, title, body)
    \/ \E title \in titles, body \in Bodies : NoteUpdate(i, title, body)
    \/ \E title \in titles : NoteRemove(i, title)
    \/ NoteRestart(i)

CalcNext ==
    \/ CalcGetCalculators
    \/ \E oid \in Oids : CalcGetByOid(oid)
    \/ \E oid \in Oids, m \in Manufacturers, g \in Grades, b \in BatteryTypes :
           CalcAdd(oid, m, g, b)
    \/ \E oid \in Oids, m \in Manufacturers, g \in Grades, b \in BatteryTypes :
           CalcEdit(oid, m, g, b)
    \/ \E oid \in Oids : CalcDelete(oid)

ExtNext ==
    \/ ExtDeleteFile
    \/ ExtDeleteDir
    \/ \E text \in MalformedTexts : ExtCorrupt(text)

\* the application as routed: one manager per resource, and the outside world
Next == NoteNext(Router, Titles) \/ CalcNext \/ ExtNext

Spec == Init /\ [][Next]_vars

\* two NoteManager instances over the same notes file
InitTwo == Init /\ app = "notes"

NextTwo == (\E i \in Insts : NoteNext(i, TitlesTwo)) \/ ExtNext

SpecTwo == InitTwo /\ [][NextTwo]_vars

(***************************************************************************)
(* Calls made while the file system carries out, refuses or cuts short     *)
(* the writes                                                              *)
(***************************************************************************)
Ops == {"list", "get", "add", "update", "delete"}

NoteCall(c, op, title, body) ==
    CASE op = "list" -> getNotes(c)
      [] op = "get" -> getNoteByTitle(c, title)
      [] op = "add" -> addNote(c, title, body)
      [] op = "update" -> updateNote(c, title, body)
      [] op = "delete" -> removeNote(c, title)

CalcCall(c, op, oid, fields) ==
    CASE op = "list" -> getCalculators(c)
      [] op = "get" -> getCalculatorByOid(c, oid)
      [] op = "add" -> addCalculator(c, oid, fields.manufacturer, fields.grade,
                                     fields.batteryType)
      [] op = "update" -> editCalculator(c, oid, fields.manufacturer, fields.grade,
                                         fields.batteryType)
      [] op = "delete" -> deleteCalculator(c, oid)

\* the record of a call: its key and fields where the operation takes them
CallRecord(op, created, key, val, ret, fault) ==
    [op |-> op, created |-> created, ret |-> ret, fault |-> fault]
        @@ (IF op = "list" THEN <<>> ELSE [key |-> key])
        @@ (IF op \in {"add", "update"} THEN [val |-> val] ELSE <<>>)

NoteFaulty(i, op, title, body, fault) ==
    /\ app = "notes"
    /\ op = "add" => Len(NoteList) < MaxRecs
    /\ With(NoteCall([NoteCtx(i) EXCEPT !.fault = fault], op, title, body), LAMBDA r :
           /\ NoteDone(i, r)
           /\ last' = [inst |-> i] @@ CallRecord(op, ~noteFile.exists, title,
                                                 [body |-> body], r.ret, fault))

CalcFaulty(op, oid, fields, fault) ==
    /\ app = "calculators"
    /\ op = "add" => Len(CalcList) < MaxRecs
    /\ With(CalcCall([CalcCtx EXCEPT !.fault = fault], op, oid, fields), LAMBDA r :
           /\ CalcDone(r)
           /\ last' = CallRecord(op, ~calcFile.exists, oid, fields, r.ret, fault))

\* argument values of the calls made on the failing file system
OidsFault == {1, 2}
FieldsFault ==
    {[manufacturer |-> <<"m">>, grade |-> 0, batteryType |-> 1],
     [manufacturer |-> <<"m">>, grade |-> 10, batteryType |-> 3]}

FaultNext ==
    \/ \E op \in Ops, title \in TitlesTwo, body \in Bodies,
          fault \in Faults \cup {"none"} :
           NoteFaulty(Router, op, title, body, fault)
    \/ \E op \in Ops, oid \in OidsFault, fields \in FieldsFault,
          fault \in Faults \cup {"none"} :
           CalcFaulty(op, oid, fields, fault)
    \/ ExtDeleteFile

\* the routed application on a file system whose writes may fail
SpecFault == Init /\ [][FaultNext]_vars

(***************************************************************************)
(* Requests handled by the controller of the running application, from an  *)
(* empty store                                                             *)
(***************************************************************************)
\* values of the form fields and URL parameters of the requests
OidValues ==
    {Absent, Field(<<" ", "7">>), Field(<<"1", "2">>), Field(<<"1", ".", "5">>)}
ManufacturerValues == {Absent, Field(<<" ">>), Field(<<" ", "m", " ">>)}
GradeValues ==
    {Field(<<"1", "1">>), Field(<<"1", "e", "-", "4", "0", "0">>),
     Field(<<" ", "5", " ">>)}
BatteryValues == {Absent, Field(<<"2">>), Field(<<"4">>)}
OidParams == {<<"7">>, <<"1", "2">>, <<"x">>}
TitleValues ==
    {Absent, Field(<<" ">>), Field(<<" ", "a", " ">>), Field(<<"A">>), Field(<<"a">>)}
BodyValues == {Absent, Field(<<" ">>), Field(<<" ", "x", " ">>), Field(<<"y">>)}
TitleParams == {<<"a">>, <<" ", "a", " ">>, <<"A">>}

CalcBodies ==
    [oid : OidValues, manufacturer : ManufacturerValues, grade : GradeValues,
     batteryType : BatteryValues]
\* the oid of an edit is in the URL; a form may carry one all the same
CalcEditBodies ==
    [oid : {Absent, Field(<<"1", "2">>)},
     manufacturer : ManufacturerValues \ {Absent},
     grade : {Field(<<"1", "1">>), Field(<<" ", "5", " ">>)},
     batteryType : BatteryValues \ {Absent}]
NoteBodies == [title : TitleValues, body : BodyValues]
\* the title of an update is in the URL; a form may carry one all the same
NoteEditBodies == [title : {Absent, Field(<<"A">>)}, body : BodyValues]

\* the record of a handled request
Request(op, param, body, r) ==
    [op |-> op, param |-> param, body |-> body, called |-> r.called, resp |-> r.resp]

CtlCalcPostCreate(body) ==
    /\ app = "calculators"
    /\ With(CalcPostCreate(CalcCtx, body), LAMBDA r :
           /\ r.called # <<>> => Len(CalcList) < MaxRecs
           /\ CalcDone(r)
           /\ last' = Request("postCreate", <<>>, body, r))

CtlCalcGetEdit(oid) ==
    /\ app = "calculators"
    /\ With(CalcGetEdit(CalcCtx, oid), LAMBDA r :
           /\ CalcDone(r)
           /\ last' = Request("getEdit", oid, <<>>, r))

CtlCalcPostDelete(oid) ==
    /\ app = "calculators"
    /\ With(CalcPostDelete(CalcCtx, oid), LAMBDA r :
           /\ CalcDone(r)
           /\ last' = Request("postDelete", oid, <<>>, r))

CtlCalcPostEdit(oid, body) ==
    /\ app = "calculators"
    /\ With(CalcPostEdit(CalcCtx, oid, body), LAMBDA r :
           /\ CalcDone(r)
           /\ last' = Request("postEdit", oid, body, r))

CtlNotePostCreate(body) ==
    /\ app = "notes"
    /\ With(NotePostCreate(NoteCtx(Router), body), LAMBDA r :
           /\ r.called # <<>> => Len(NoteList) < MaxRecs
           /\ NoteDone(Router, r)
           /\ last' = Request("postCreate", <<>>, body, r))

CtlNoteGetUpdate(title) ==
    /\ app = "notes"
    /\ With(NoteGetUpdate(NoteCtx(Router), title), LAMBDA r :
           /\ NoteDone(Router, r)
           /\ last' = Request("getUpdate", title, <<>>, r))

CtlNoteGetDelete(title) ==
    /\ app = "notes"
    /\ With(NoteGetDelete(NoteCtx(Router), title), LAMBDA r :
           /\ NoteDone(Router, r)
           /\ last' = Request("getDelete", title, <<>>, r))

CtlNotePostUpdate(title, body) ==
    /\ app = "notes"
    /\ With(NotePostUpdate(NoteCtx(Router), title, body), LAMBDA r :
           /\ NoteDone(Router, r)
           /\ last' = Request("postUpdate", title, body, r))

CtlNext ==
    \/ \E body \in CalcBodies : CtlCalcPostCreate(body)
    \/ \E oid \in OidParams : CtlCalcGetEdit(oid)
    \/ \E oid \in OidParams : CtlCalcPostDelete(oid)
    \/ \E oid \in OidParams, body \in CalcEditBodies : CtlCalcPostEdit(oid, body)
    \/ \E body \in NoteBodies : CtlNotePostCreate(body)
    \/ \E title \in TitleParams : CtlNoteGetUpdate(title)
    \/ \E title \in TitleParams : CtlNoteGetDelete(title)
    \/ \E title \in TitleParams, body \in NoteEditBodies : CtlNotePostUpdate(title, body)

SpecCtl == Init /\ [][CtlNext]_vars

(***************************************************************************)
(* HomeController (login, logout) and the notes routes behind the global   *)
(* authMiddleware of the express server.                                   *)
(***************************************************************************)
\* the outcome of a home route: the auth state it leaves, the response
HomeHandled(a, resp) == [auth |-> a, resp |-> resp]

LoginPage(status, error) == [kind |-> "login", status |-> status, error |-> error]

\* a form value is truthy when it is given and not the empty string
Truthy(v) == v.given /\ v.s # <<>>

getLogin(a) ==
    IF isLoggedIn(a) THEN HomeHandled(a, Redirect("/notes/index"))
    ELSE HomeHandled(a, LoginPage(200, FALSE))

postLogin(a, body) ==
    IF Truthy(body.email) /\ Truthy(body.password)
       /\ isValidUser(a, body.email.s, body.password.s)
    THEN HomeHandled(setLoggedIn(a, TRUE), Redirect("/notes/index"))
    ELSE HomeHandled(a, LoginPage(401, TRUE))

getLogout(a) == HomeHandled(setLoggedIn(a, FALSE), Redirect("/"))

NoteGetIndex(c) ==
    With(getNotes(c), LAMBDA r :
        Handled(r.ctx, <<"getNotes">>, [kind |-> "index", notes |-> r.ret.list]))

NoteGetCreate(c) == Handled(c, <<>>, NoteRenderForm("Add", Null, FALSE))

NoteRouteOps ==
    {"getIndex", "getCreate", "getUpdate", "getDelete", "postCreate", "postUpdate"}

\* the handler notesRouter registers for a route
NoteHandler(c, op, param, body) ==
    CASE op = "getIndex" -> NoteGetIndex(c)
      [] op = "getCreate" -> NoteGetCreate(c)
      [] op = "getUpdate" -> NoteGetUpdate(c, param)
      [] op = "getDelete" -> NoteGetDelete(c, param)
      [] op = "postCreate" -> NotePostCreate(c, body)
      [] op = "postUpdate" -> NotePostUpdate(c, param, body)

\* a notes route that answers only a logged-in client
NoteRoute_RequiresLogin(c, a, op, param, body) ==
    With(authMiddleware(a), LAMBDA locals :
        IF locals.isAuthenticated
        THEN [locals |-> locals] @@ NoteHandler(c, op, param, body)
        ELSE [locals |-> locals] @@ Handled(c, <<>>, Redirect("/login")))

\* app.use(authMiddleware()), then the route's handler
NoteRoute(c, a, op, param, body) ==
    With(authMiddleware(a), LAMBDA locals :
        [locals |-> locals] @@ NoteHandler(c, op, param, body))

EmailValues == {Absent, Field(<<>>), Field(DevEmail), Field(DevPassword)}
PasswordValues == {Absent, Field(<<>>), Field(DevPassword), Field(DevEmail)}
LoginBodies == [email : EmailValues, password : PasswordValues]

\* the requests of each notes route
NoteRequests ==
    [op : {"getIndex", "getCreate"}, param : {<<>>}, body : {<<>>}]
    \cup [op : {"getUpdate", "getDelete"}, param : TitleParams, body : {<<>>}]
    \cup [op : {"postCreate"}, param : {<<>>}, body : NoteBodies]
    \cup [op : {"postUpdate"}, param : TitleParams, body : NoteEditBodies]

AuthFrame == UNCHANGED <<app, dirExists, noteFile, calcFile, noteCache, writers>>

AuthGetLogin ==
    With(getLogin(auth), LAMBDA r :
        /\ auth' = r.auth
        /\ last' = [op |-> "getLogin", resp |-> r.resp]
        /\ AuthFrame)

AuthPostLogin(body) ==
    With(postLogin(auth, body), LAMBDA r :
        /\ auth' = r.auth
        /\ last' = [op |-> "postLogin", body |-> body, resp |-> r.resp]
        /\ AuthFrame)

AuthGetLogout ==
    With(getLogout(auth), LAMBDA r :
        /\ auth' = r.auth
        /\ last' = [op |-> "getLogout", resp |-> r.resp]
        /\ AuthFrame)

AuthNoteRequest(q) ==
    With(NoteRoute(NoteCtx(Router), auth, q.op, q.param, q.body), LAMBDA r :
        /\ (q.op = "postCreate" /\ r.called # <<>>) => Len(NoteList) < MaxRecs
        /\ NoteDone(Router, r)
        /\ last' = [locals |-> r.locals] @@ Request(q.op, q.param, q.body, r))

InitAuth == Init /\ app = "notes"

AuthNext ==
    \/ AuthGetLogin
    \/ \E body \in LoginBodies : AuthPostLogin(body)
    \/ AuthGetLogout
    \/ \E q \in NoteRequests : AuthNoteRequest(q)

SpecAuth == InitAuth /\ [][AuthNext]_vars

(***************************************************************************)
(* Both managers at work in one data directory                             *)
(***************************************************************************)
\* index.ts mounts both routers: the NoteManager is constructed (and loads)
\* at start, the CalculatorManager touches the disk on its first call
InitBoth ==
    /\ app = "both"
    /\ calcFile = NoFile
    /\ LET c == NoteManagerNew(FALSE, NoFile) IN
       /\ dirExists = c.dir
       /\ noteFile = c.file
       /\ noteCache = [i \in Insts |-> c.notes]
    /\ last = [op |-> "init"]
    /\ writers = [w \in Insts |-> Idle]
    /\ auth = AuthAtStart

BothNoteCall(op, title, body) ==
    /\ app = "both"
    /\ op = "add" => Len(NoteList) < MaxRecs
    /\ With(NoteCall(NoteCtx(Router), op, title, body), LAMBDA r :
           /\ NoteDone(Router, r)
           /\ last' = [manager |-> "notes"]
                          @@ CallRecord(op, ~noteFile.exists, title,
                                        [body |-> body], r.ret, "none"))

BothCalcCall(op, oid, fields) ==
    /\ app = "both"
    /\ op = "add" => Len(CalcList) < MaxRecs
    /\ With(CalcCall(CalcCtx, op, oid, fields), LAMBDA r :
           /\ CalcDone(r)
           /\ last' = [manager |-> "calculators"]
                          @@ CallRecord(op, ~calcFile.exists, oid, fields, r.ret,
                                        "none"))

BothNext ==
    \/ \E op \in Ops, title \in TitlesTwo, body \in Bodies :
           BothNoteCall(op, title, body)
    \/ \E op \in Ops, oid \in OidsFault, fields \in FieldsFault :
           BothCalcCall(op, oid, fields)

SpecBoth == InitBoth /\ [][BothNext]_vars

(***************************************************************************)
(* Two processes that add to the same file.  An add is two steps: the      *)
(* statements up to the write (the read, the collision check, the push),   *)
(* and the write with the return.                                          *)
(***************************************************************************)
\* the new record of an add with the key and the fields
NewRecord(key, fields) ==
    IF app = "notes" THEN [title |-> key, body |-> fields.body]
    ELSE [oid |-> key, manufacturer |-> fields.manufacturer,
          grade |-> fields.grade, batteryType |-> fields.batteryType]

\* the context after the read of the add of process w, and the array read
ReadOf(w) ==
    IF app = "notes"
    THEN With(loadNotes(NoteCtx(w)), LAMBDA c1 : [ctx |-> c1, arr |-> c1.notes])
    ELSE readAll(CalcCtx)

\* what process w leaves on the disk and in its manager
EffectOf(w, c) == IF app = "notes" THEN NoteEffect(w, c) ELSE CalcEffect(c)

\* the add of process w up to its write: on a collision it returns null
AddRead(w, key, fields) ==
    /\ writers[w].pc = "idle"
    /\ With(ReadOf(w), LAMBDA r :
           /\ Len(r.arr) < MaxRecs
           /\ EffectOf(w, r.ctx)
           /\ writers' =
                  [writers EXCEPT ![w] =
                      IF Find(r.arr, KeyField, key) # 0
                      THEN [pc |-> "done", rec |-> NewRecord(key, fields),
                            arr |-> r.arr, ret |-> Null]
                      ELSE [pc |-> "read", rec |-> NewRecord(key, fields),
                            arr |-> Append(r.arr, NewRecord(key, fields)),
                            ret |-> Null]])
    /\ last' = [op |-> "read", writer |-> w]

\* a write that reads the file again and adds the record to what it holds now
WriteOf_Rereads(w, arr) ==
    With(ReadOf(w), LAMBDA r :
        With(Append(r.arr, arr[Len(arr)]), LAMBDA merged :
            IF app = "notes" THEN saveNotes([r.ctx EXCEPT !.notes = merged])
            ELSE writeAll(r.ctx, merged)))

\* the context after the write of the array arr by process w
WriteOf(w, arr) ==
    IF app = "notes" THEN saveNotes([NoteCtx(w) EXCEPT !.notes = arr])
    ELSE writeAll(CalcCtx, arr)

\* the write of the add of process w, and its return of the new record
AddWrite(w) ==
    /\ writers[w].pc = "read"
    /\ EffectOf(w, WriteOf(w, writers[w].arr))
    /\ writers' = [writers EXCEPT ![w].pc = "done", ![w].ret = RecOf(writers[w].rec)]
    /\ last' = [op |-> "write", writer |-> w]

\* the caller of process w has the result and may add again
AddReturn(w) ==
    /\ writers[w].pc = "done"
    /\ writers' = [writers EXCEPT ![w] = Idle]
    /\ last' = [op |-> "return", writer |-> w]
    /\ UNCHANGED <<app, auth, dirExists, noteFile, calcFile, noteCache>>

RaceNext ==
    \E w \in Insts :
        \/ \E key \in (IF app = "notes" THEN TitlesTwo ELSE OidsFault),
              fields \in (IF app = "notes" THEN [body : Bodies] ELSE FieldsFault) :
               AddRead(w, key, fields)
        \/ AddWrite(w)
        \/ AddReturn(w)

SpecRace == Init /\ [][RaceNext]_vars

(***************************************************************************)
(* parseInt applied to a form value                                        *)
(***************************************************************************)
MaxFormLen == 3
FormChars == {"0", "1", ".", "e", "-", " ", "x"}

\* the form values parseInt is applied to: absent, every string of up to
\* MaxFormLen characters, and literals outside the range of the doubles
ParseInputs ==
    {Absent}
        \cup {Field(s) : s \in UNION {[1..n -> FormChars] : n \in 0..MaxFormLen}}
        \cup {Field(<<"1", "e", "-", "4", "0", "0">>), Field(<<"1", "e", "4", "0", "0">>),
              Field(<<" ", "0", "x", "1", "f", " ">>), Field(<<"-", "1", "2", "0">>),
              Field(<<"1", "5", "0", "e", "-", "1">>)}

InitParse ==
    /\ app = "calculators"
    /\ dirExists = FALSE
    /\ noteFile = NoFile
    /\ calcFile = NoFile
    /\ noteCache = [i \in Insts |-> <<>>]
    /\ last \in [op : {"form"}, value : ParseInputs]
    /\ writers = [w \in Insts |-> Idle]
    /\ auth = AuthAtStart

ParseForm ==
    /\ last.op = "form"
    /\ last' = [op |-> "parseInt", value |-> last.value, ret |-> parseInt(last.value)]
    /\ UNCHANGED <<app, auth, dirExists, noteFile, calcFile, noteCache, writers>>

SpecParse == InitParse /\ [][ParseForm]_vars

(***************************************************************************)
(* The running application's resource, seen through its manager            *)
(***************************************************************************)
\* the storage file, list() and getByKey(key) of the routed manager when the
\* directory, the files and the caches are d, nf, cf and nc
FileIn(nf, cf) == IF app = "notes" THEN nf ELSE cf

ListIn(d, nf, cf, nc) ==
    IF app = "notes"
    THEN getNotes(NoteCtxOf(d, nf, nc[Router])).ret.list
    ELSE getCalculators(CalcCtxOf(d, cf)).ret.list

GetByKeyIn(d, nf, cf, nc, key) ==
    IF app = "notes"
    THEN getNoteByTitle(NoteCtxOf(d, nf, nc[Router]), key).ret
    ELSE getCalculatorByOid(CalcCtxOf(d, cf), key).ret

\* before and after a step
File == FileIn(noteFile, calcFile)
FileNext == FileIn(noteFile', calcFile')
List == ListIn(dirExists, noteFile, calcFile, noteCache)
ListNext == ListIn(dirExists', noteFile', calcFile', noteCache')
GetByKey(key) == GetByKeyIn(dirExists, noteFile, calcFile, noteCache, key)
GetByKeyNext(key) == GetByKeyIn(dirExists', noteFile', calcFile', noteCache', key)

\* the record with the key and the mutable fields of an add or update call
RecFrom(key, val) == (KeyField :> key) @@ val

HasKey(arr, key) == Find(arr, KeyField, key) # 0

KeyUnique(arr) ==
    \A m, n \in 1..Len(arr) : arr[m][KeyField] = arr[n][KeyField] => m = n

\* the keys the callers pass
Keys == IF app = "notes" THEN Titles ELSE Oids

IsCall(l) == l.op \in {"list", "get", "add", "update", "delete"}

(***************************************************************************)
(* Claims                                                                  *)
(***************************************************************************)
\* C1: after any sequence of add, update and delete calls by the single
\* writer, no two records that list() returns share a key (title for notes,
\* oid for calculators).
C1_KeyUnique == KeyUnique(List)

\* a second note with another title was added to a stored one
C1_Witness ==
    /\ app = "notes"
    /\ Len(List) = 2
    /\ last.op = "add"
    /\ last.ret # Null

\* C2: an add whose key is already in the collection returns null, leaves the
\* file and list() as they were, and getByKey(key) still returns the record
\* stored before the call.
C2_DuplicateAddRejected ==
    [][\A key \in Keys :
          (last'.op = "add" /\ last'.key = key /\ HasKey(List, key)) =>
              /\ last'.ret = Null
              /\ FileNext = File
              /\ ListNext = List
              /\ GetByKeyNext(key) = GetByKey(key)
              /\ GetByKeyNext(key) = RecOf(List[Find(List, KeyField, key)])]_vars

\* an add was rejected although it carried other fields than the stored record
C2_Witness ==
    /\ app = "calculators"
    /\ last.op = "add"
    /\ last.ret = Null
    /\ GetByKey(last.key) # RecOf(RecFrom(last.key, last.val))

\* C3: right after a successful add(r), getByKey(r.key) returns r; right after
\* a successful update(k, f), getByKey(k) returns the record of key k with the
\* fields f; right after a delete(k) that returned true, getByKey(k) returns
\* null.
C3_ReadYourWrites ==
    /\ (last.op = "add" /\ last.ret # Null) =>
           /\ last.ret = RecOf(RecFrom(last.key, last.val))
           /\ GetByKey(last.key) = last.ret
    /\ (last.op = "update" /\ last.ret # Null) =>
           GetByKey(last.key) = RecOf(RecFrom(last.key, last.val))
    /\ (last.op = "delete" /\ last.ret = BoolOf(TRUE)) =>
           GetByKey(last.key) = Null

\* a stored note was updated to another body while a second note is stored
C3_Witness ==
    /\ app = "notes"
    /\ last.op = "update"
    /\ last.ret # Null
    /\ Len(List) = 2
    /\ last.key = List[2].title

\* list() and the effect of every call on instance i, whatever instance i cached
NoteListOf(i) == getNotes(NoteCtx(i)).ret.list

SameOutcome(r1, r2) ==
    /\ r1.ret = r2.ret
    /\ r1.ctx.file = r2.ctx.file
    /\ r1.ctx.notes = r2.ctx.notes

\* C4: with two NoteManager instances over the same file, whose calls do not
\* interleave, every call on either instance works on the collection the last
\* completed call of either instance left, and its outcome (return value,
\* file written, collection kept) is the same whatever the instance's notes
\* field held when the call started.
C4_NoStaleReads ==
    /\ IsCall(last) => \A i \in Insts : NoteListOf(i) = noteCache[last.inst]
    /\ \A i, j \in Insts :
          /\ SameOutcome(getNotes(NoteCtx(i)), getNotes(NoteCtx(j)))
          /\ \A title \in TitlesTwo :
                /\ SameOutcome(getNoteByTitle(NoteCtx(i), title),
                               getNoteByTitle(NoteCtx(j), title))
                /\ SameOutcome(removeNote(NoteCtx(i), title),
                               removeNote(NoteCtx(j), title))
                /\ \A body \in Bodies :
                      /\ SameOutcome(addNote(NoteCtx(i), title, body),
                                     addNote(NoteCtx(j), title, body))
                      /\ SameOutcome(updateNote(NoteCtx(i), title, body),
                                     updateNote(NoteCtx(j), title, body))

\* instance 1 has just added a note that the notes field of instance 2 lacks
C4_Witness ==
    /\ last.op = "add"
    /\ last.inst = 1
    /\ last.ret # Null
    /\ Len(noteCache[1]) = 2
    /\ Len(noteCache[2]) = 1
    /\ noteCache[2][1].title = last.key

\* C5: delete(k) for a key that is not in the collection returns false and
\* leaves list() as it was, contents and order; so once a delete(k) has
\* returned true, a further delete(k) returns false and changes nothing.
C5_IdempotentDelete ==
    [][\A key \in Keys :
          (last'.op = "delete" /\ last'.key = key) =>
              /\ ~HasKey(List, key) =>
                     /\ last'.ret = BoolOf(FALSE)
                     /\ ListNext = List
                     /\ File.exists => FileNext = File
              /\ (last.op = "delete" /\ last.key = key /\ last.ret = BoolOf(TRUE)) =>
                     /\ last'.ret = BoolOf(FALSE)
                     /\ ListNext = List
                     /\ FileNext = File]_vars

\* a delete that returned true was followed by the same delete, which left
\* the remaining record in place
C5_Witness ==
    /\ app = "calculators"
    /\ last.op = "delete"
    /\ last.ret = BoolOf(FALSE)
    /\ Len(List) = 1
    /\ File.exists
    /\ ~HasKey(List, last.key)

\* C6: a manager constructed anew over the same file lists the collection the
\* running manager lists, element by element and in the same order, and that
\* is the collection the running manager last wrote: what was serialized to
\* the file is read back unchanged.
C6_RoundTrip ==
    /\ app = "notes" =>
          /\ getNotes(NoteManagerNew(dirExists, noteFile)).ret.list = NoteList
          /\ (last.op \in {"add", "update"} /\ last.ret # Null) =>
                 NoteManagerNew(dirExists, noteFile).notes = noteCache[Router]
          /\ (last.op = "delete" /\ last.ret = BoolOf(TRUE)) =>
                 NoteManagerNew(dirExists, noteFile).notes = noteCache[Router]
    /\ (last.op \in {"add", "update"} /\ last.ret # Null) =>
           /\ HasKey(List, last.key)
           /\ RecOf(List[Find(List, KeyField, last.key)]) = last.ret
    /\ ArrayOfText(JSONstringify(List)) = List
    /\ (IsCall(last) /\ List # <<>>) => File.data = JSONstringify(List)

\* two calculators are stored and the second was just edited
C6_Witness ==
    /\ app = "calculators"
    /\ Len(List) = 2
    /\ last.op = "update"
    /\ last.ret = RecOf(List[2])
    /\ List[2].grade # List[2].batteryType

\* the storage file is missing, blank, no JSON text or no JSON array
IsOneOf(data, texts) == \E text \in texts : data = text

Degenerate(file) == ~file.exists \/ IsOneOf(file.data, MalformedTexts)

HoldsArray(file) ==
    /\ file.exists
    /\ JSONparse(file.data).ok
    /\ JSONparse(file.data).val.k = "arr"

\* C7: whenever the storage file is missing, empty, whitespace only, invalid
\* JSON or a JSON value that is no array, list() returns the empty sequence
\* (the read or parse error is swallowed) and getByKey returns null.
C7_PermissiveRead ==
    /\ \A text \in InvalidJSONTexts : ~JSONparse(text).ok
    /\ \A text \in NonArrayTexts : JSONparse(text).ok /\ JSONparse(text).val.k # "arr"
    /\ Degenerate(File) =>
          /\ List = <<>>
          /\ \A key \in Keys : GetByKey(key) = Null
    /\ (IsCall(last) /\ Degenerate(File)) =>
          /\ IsOneOf(File.data, MalformedTexts)
          /\ last.op \in {"list", "get", "update", "delete"}
          /\ last.ret = ListOf(<<>>) \/ last.ret = Null \/ last.ret = BoolOf(FALSE)

\* a getByKey ran on a notes file that holds a JSON object
C7_Witness ==
    /\ app = "notes"
    /\ last.op = "get"
    /\ last.ret = Null
    /\ noteFile.exists
    /\ IsOneOf(noteFile.data, NonArrayTexts)

\* C8: every call initializes the storage first: after any call the directory
\* and the file exist; a call that finds the file (or the directory) deleted
\* works on the empty collection and leaves a file holding a JSON array; a
\* call that finds the file leaves its content to the operation alone, so
\* list() and getByKey do not change it.
C8_LazyInit ==
    [][(IsCall(last') \/ last'.op = "new") =>
          /\ dirExists'
          /\ FileNext.exists
          /\ last'.created = ~File.exists
          /\ ~File.exists =>
                /\ HoldsArray(FileNext)
                /\ last'.op = "list" => last'.ret = ListOf(<<>>)
                /\ last'.op \in {"get", "update"} => last'.ret = Null
                /\ last'.op = "delete" => last'.ret = BoolOf(FALSE)
                /\ last'.op = "add" =>
                      /\ last'.ret = RecOf(RecFrom(last'.key, last'.val))
                      /\ ListNext = <<RecFrom(last'.key, last'.val)>>
                /\ last'.op # "add" => ListNext = <<>> /\ FileNext = FileOf(<<LB, RB>>)
          /\ File.exists =>
                /\ last'.op \in {"list", "get", "new"} => FileNext = File
                /\ app = "notes" => NoteEnsureStorage(NoteCtx(Router)).file = noteFile
                /\ app = "calculators" => CalcEnsureStorage(CalcCtx).file = calcFile]_vars

\* an add found the calculators file deleted and created it with its record
C8_Witness ==
    /\ app = "calculators"
    /\ last.op = "add"
    /\ last.created
    /\ last.ret # Null
    /\ HoldsArray(calcFile)
    /\ Len(List) = 1

\* C9: an add whose key is not in the collection L returns the record built
\* from exactly the fields passed, and list() afterwards is L followed by
\* that record; on an empty store it is that record alone.
C9_AddAppends ==
    [][\A key \in Keys :
          (last'.op = "add" /\ last'.key = key /\ ~HasKey(List, key)) =>
              /\ last'.ret = RecOf(RecFrom(key, last'.val))
              /\ ListNext = Append(List, RecFrom(key, last'.val))
              /\ List = <<>> => ListNext = <<RecFrom(key, last'.val)>>]_vars

\* a calculator was added behind a stored one
C9_Witness ==
    /\ app = "calculators"
    /\ last.op = "add"
    /\ Len(List) = 2
    /\ last.ret = RecOf(List[2])
    /\ ~last.created

\* C10: update(k, f) on a key that is not in the collection returns null and
\* does not write the collection (the file is as storage initialization
\* leaves it); on a stored key it replaces the mutable fields of that record
\* by f and keeps its key and its position, leaves the other records and the
\* length as they were, and returns the updated record.
C10_UpdateInPlace ==
    [][\A key \in Keys :
          (last'.op = "update" /\ last'.key = key) =>
              IF ~HasKey(List, key)
              THEN /\ last'.ret = Null
                   /\ ListNext = List
                   /\ FileNext = (IF File.exists THEN File ELSE FileOf(<<LB, RB>>))
              ELSE LET at == Find(List, KeyField, key) IN
                   /\ Len(ListNext) = Len(List)
                   /\ ListNext[at] = RecFrom(key, last'.val)
                   /\ ListNext[at][KeyField] = List[at][KeyField]
                   /\ \A n \in 1..Len(List) : n # at => ListNext[n] = List[n]
                   /\ last'.ret = RecOf(ListNext[at])]_vars

\* the first of two stored notes was given another body than it had
C10_Witness ==
    /\ app = "notes"
    /\ last.op = "update"
    /\ last.ret # Null
    /\ Len(List) = 2
    /\ last.key = List[1].title
    /\ List[1].body # List[2].body

\* the records of arr whose key is not key, in the order of arr
Without(arr, field, key) == SelectSeq(arr, LAMBDA rec : rec[field] # key)

\* collections in which a key occurs more than once, as another writer of the
\* file may leave them
NotesWithRepeatedTitle ==
    {<<[title |-> <<"a">>, body |-> <<"x">>], [title |-> <<"b">>, body |-> <<"x">>],
       [title |-> <<"a">>, body |-> <<"y">>]>>,
     <<[title |-> <<"b">>, body |-> <<"y">>], [title |-> <<"a">>, body |-> <<"x">>],
       [title |-> <<"A">>, body |-> <<"x">>], [title |-> <<"a">>, body |-> <<"x">>]>>}

\* C11: delete(k) returns true exactly when a record with key k is in the
\* collection; then list() afterwards is the previous list without the
\* records of key k, the others in their previous order, and that list is
\* what the file holds; otherwise it returns false, list() is as before and
\* the collection is not written.  On a file in which the key occurs several
\* times, every record of that key is removed.
C11_DeleteSemantics ==
    /\ \A arr \in NotesWithRepeatedTitle : \A title \in Titles :
          LET r == removeNote(NoteCtxOf(TRUE, FileOf(JSONstringify(arr)), <<>>), title)
              left == Without(arr, "title", title) IN
          /\ r.ret = BoolOf(Len(left) # Len(arr))
          /\ getNotes(r.ctx).ret.list = left
          /\ Len(left) = Len(arr) => r.ctx.file = FileOf(JSONstringify(arr))
    /\ [][\A key \in Keys :
             (last'.op = "delete" /\ last'.key = key) =>
                 /\ last'.ret = BoolOf(HasKey(List, key))
                 /\ ListNext = Without(List, KeyField, key)
                 /\ HasKey(List, key) =>
                        /\ Len(ListNext) = Len(List) - 1
                        /\ FileNext = FileOf(JSONstringify(ListNext))
                 /\ ~HasKey(List, key) =>
                        /\ ListNext = List
                        /\ FileNext = (IF File.exists THEN File
                                       ELSE FileOf(<<LB, RB>>))]_vars

\* one of two stored calculators was deleted and the other, of a smaller oid, is left
C11_Witness ==
    /\ app = "calculators"
    /\ last.op = "delete"
    /\ last.ret = BoolOf(TRUE)
    /\ Len(List) = 1
    /\ List[1].oid < last.key

\* the fault the file system answered the writes of a call with
FaultOf(l) == IF "fault" \in DOMAIN l THEN l.fault ELSE "none"

\* the call reaches a fs.writeFileSync: storage initialization finds no file,
\* or the operation persists the collection
Writes(op, key) ==
    \/ ~File.exists
    \/ op = "add" /\ ~HasKey(List, key)
    \/ op \in {"update", "delete"} /\ HasKey(List, key)

\* C12: when the file write of an add, update or delete fails, the call
\* throws, the file keeps the content it had and list() and getByKey return
\* afterwards what they returned before the call.
C12_FailedWriteKeepsFile ==
    [][(last'.op \in {"add", "update", "delete"} /\ FaultOf(last') # "none"
            /\ HoldsArray(File) /\ Writes(last'.op, last'.key)) =>
          /\ last'.ret = Thrown
          /\ FileNext = File
          /\ ListNext = List
          /\ \A key \in Keys : GetByKeyNext(key) = GetByKey(key)]_vars

\* C13: every call ends in a success value, a sentinel or a throw, by its
\* operation; getByKey and update return null only when the key is not
\* stored, add returns null only when it is, delete returns false only when
\* it is not; a call throws exactly when a write it makes fails, so a failed
\* write never ends in a sentinel or a success value, and a missing or
\* duplicate key alone never throws.
C13_OutcomeKinds ==
    [][IsCall(last') =>
          LET op == last'.op
              ret == last'.ret
              key == IF op = "list" THEN 0 ELSE last'.key
              stored == op # "list" /\ HasKey(List, key)
              failed == FaultOf(last') # "none" /\ Writes(op, key) IN
          /\ (ret = Thrown) <=> failed
          /\ ~failed =>
                /\ op = "list" => ret = ListOf(List)
                /\ op = "get" => ret = GetByKey(key)
                /\ op \in {"get", "update"} => (ret = Null <=> ~stored)
                /\ op = "add" => (ret = Null <=> stored)
                /\ op = "delete" => ret = BoolOf(stored)
                /\ (op \in {"get", "add", "update"} /\ ret # Null) =>
                       /\ ret.k = "rec"
                       /\ ret.rec[KeyField] = key]_vars

\* an add of a new title threw on a failed write, a stored note present
C13_Witness ==
    /\ app = "notes"
    /\ last.op = "add"
    /\ last.ret = Thrown
    /\ ~last.created
    /\ FaultOf(last) = "open"
    /\ Len(List) = 1
    /\ ~HasKey(List, last.key)

\* the number a literal denotes, without the rounding to a double
ExactOfLiteral(lit) ==
    IF lit.k \in {"nan", "inf", "radix"} THEN ToDouble(lit)
    ELSE IF lit.sig = <<>> THEN IntNumber(0)
    ELSE IF lit.exp < 0 THEN FracNumber
    ELSE IF lit.exp + Len(lit.sig) - 1 < MaxIntDigits
    THEN IntNumber((IF lit.neg THEN 0 - 1 ELSE 1) * IntOf(lit.sig, 10) * Pow10(lit.exp))
    ELSE BigNumber

\* the number a form value denotes (exactly) and the double it is read as;
\* NaN when the value is absent or blank
ExactOf(value) ==
    IF ~value.given \/ TrimStr(value.s) = <<>> THEN NaN
    ELSE ExactOfLiteral(Literal(TrimStr(value.s)))

DoubleOf(value) ==
    IF ~value.given \/ TrimStr(value.s) = <<>> THEN NaN
    ELSE ToDouble(Literal(TrimStr(value.s)))

IsIntegerIn(num, min, max) == num.k = "int" /\ num.n >= min /\ num.n <= max

\* a create request that the claim calls invalid, its numbers read by Number
\* (exactly, or as doubles)
InvalidCreate(body, Number(_)) ==
    IF app = "notes"
    THEN TrimOrEmpty(body.title) = <<>> \/ TrimOrEmpty(body.body) = <<>>
    ELSE \/ Number(body.oid).k \notin {"int", "bigint"}
         \/ TrimOrEmpty(body.manufacturer) = <<>>
         \/ ~IsIntegerIn(Number(body.grade), 0, 10)
         \/ ~IsIntegerIn(Number(body.batteryType), 1, 3)

\* the request was answered with the form and its error, no manager method
\* was called, and directory, file and collection are as they were
RejectedUnstored ==
    /\ last'.called = <<>>
    /\ last'.resp.kind = "form"
    /\ last'.resp.error
    /\ dirExists' = dirExists
    /\ FileNext = File
    /\ noteCache' = noteCache
    /\ ListNext = List

ValidationRejected ==
    /\ last'.op \in {"postCreate", "postEdit", "postUpdate"}
    /\ last'.resp.kind = "form"
    /\ last'.resp.error
    /\ \A n \in 1..Len(last'.called) :
           last'.called[n] \in {"getCalculatorByOid", "getNoteByTitle"}

FormFields ==
    IF app = "notes" THEN {"title", "body"}
    ELSE {"oid", "manufacturer", "grade", "batteryType"}

\* the values the redisplayed form shows, by field
Echoed(resp) ==
    IF app = "notes" THEN [title |-> resp.noteTitle, body |-> resp.noteBody]
    ELSE [oid |-> resp.oid, manufacturer |-> resp.manufacturer,
          grade |-> resp.grade, batteryType |-> resp.batteryType]

\* C15 as stated: on a validation rejection the redisplayed form carries,
\* for every submitted field, the value exactly as submitted (untrimmed).
C15_RawValuesEchoed ==
    [][ValidationRejected =>
          \A f \in FormFields :
              last'.body[f].given => Echoed(last'.resp)[f] = last'.body[f].s]_vars

\* the values the handlers redisplay after a validation rejection of the
\* request with the URL parameter and the body
Redisplayed(op, param, body) ==
    IF app = "calculators"
    THEN [oid |-> IF op = "postCreate" THEN OrEmpty(body.oid)
                  ELSE String(DoubleOf(Field(param)).n),
          manufacturer |-> TrimOrEmpty(body.manufacturer),
          grade |-> OrEmpty(body.grade),
          batteryType |-> OrEmpty(body.batteryType)]
    ELSE IF op = "postCreate"
    THEN [title |-> TrimOrEmpty(body.title), body |-> TrimOrEmpty(body.body)]
    ELSE IF HasKey(List, param)
    THEN [title |-> param, body |-> List[Find(List, "title", param)].body]
    ELSE [title |-> param, body |-> <<>>]

\* C15, amended: on a validation rejection of a create, oid, grade and
\* batteryType are redisplayed exactly as submitted (an absent field as the
\* empty string) and manufacturer, title and body are redisplayed trimmed;
\* a rejected calculator edit redisplays the oid of the URL in decimal, the
\* trimmed manufacturer and the submitted grade and batteryType; a rejected
\* note update redisplays the stored note of the URL title, or that title
\* with an empty body when no such note is stored.
C15_EchoedValues ==
    [][ValidationRejected =>
          Echoed(last'.resp) = Redisplayed(last'.op, last'.param, last'.body)]_vars

\* a rejected create redisplayed the oid as submitted and the manufacturer
\* without its surrounding blanks
C15_Witness ==
    /\ app = "calculators"
    /\ last.op = "postCreate"
    /\ last.called = <<>>
    /\ last.body.oid = Field(<<" ", "7">>)
    /\ last.body.manufacturer = Field(<<" ", "m", " ">>)
    /\ last.resp.oid = <<" ", "7">>
    /\ last.resp.manufacturer = <<"m">>

\* the data model of a stored calculator
IsCalculator(rec) ==
    /\ rec.oid \in Int
    /\ TrimStr(rec.manufacturer) # <<>>
    /\ rec.grade \in Int /\ rec.grade >= 0 /\ rec.grade <= 10
    /\ rec.batteryType \in {1, 2, 3}

\* C17: from an empty store, after any sequence of calculator controller
\* requests (create, edit, delete with arbitrary form input), every record
\* of the calculators collection has an integer oid, a manufacturer that is
\* non-empty after trimming, an integer grade in [0,10] and an integer
\* batteryType in {1,2,3}.
C17_CalculatorsWellFormed ==
    app = "calculators" => \A n \in 1..Len(List) : IsCalculator(List[n])

\* two calculators are stored and the last request edited one of them
C17_Witness ==
    /\ app = "calculators"
    /\ last.op = "postEdit"
    /\ last.called = <<"editCalculator">>
    /\ Len(List) = 2

\* the data model of a stored note
IsNote(rec) ==
    /\ rec.title # <<>>
    /\ TrimStr(rec.title) = rec.title
    /\ rec.body # <<>>

LowerCase(s) == [n \in 1..Len(s) |-> IF s[n] = "A" THEN "a" ELSE s[n]]

\* C18: from an empty store, after any sequence of note controller requests
\* (create, update, delete with arbitrary form input and URL title), every
\* record of the notes collection has a non-empty title without leading or
\* trailing whitespace and a non-empty body; a create with a valid body and
\* a title that no stored note has exactly is stored, also when a stored
\* title differs from it only in letter case.
C18_NotesWellFormed ==
    /\ [](app = "notes" => \A n \in 1..Len(List) : IsNote(List[n]))
    /\ [][(/\ app = "notes"
           /\ last'.op = "postCreate"
           /\ TrimOrEmpty(last'.body.title) # <<>>
           /\ TrimOrEmpty(last'.body.body) # <<>>
           /\ ~HasKey(List, TrimOrEmpty(last'.body.title))) =>
              /\ Len(ListNext) = Len(List) + 1
              /\ HasKey(ListNext, TrimOrEmpty(last'.body.title))
              /\ last'.resp.kind = "redirect"]_vars

\* two notes are stored whose titles differ only in letter case
C18_Witness ==
    /\ app = "notes"
    /\ Len(List) = 2
    /\ List[1].title # List[2].title
    /\ LowerCase(List[1].title) = LowerCase(List[2].title)

\* C20 as stated: parseInt returns null when the value is absent, empty
\* after trimming, fractional or non-numeric, and otherwise the exact integer
\* the trimmed string denotes.
C20_ExactInteger ==
    last.op = "parseInt" =>
        last.ret = IF ExactOf(last.value).k \in {"int", "bigint"}
                   THEN ExactOf(last.value) ELSE Null

\* C19: managers of different resource types never contend: every
\* NoteManager operation leaves the calculators file unchanged and every
\* CalculatorManager operation leaves the notes file (and the notes held by
\* the NoteManager) unchanged, in any interleaving of the operations of the
\* two managers.
C19_NoContention ==
    [][/\ last'.manager = "notes" => calcFile' = calcFile
       /\ last'.manager = "calculators" =>
              noteFile' = noteFile /\ noteCache' = noteCache]_vars

\* a calculator was added after a note was, and each file holds its record
C19_Witness ==
    /\ app = "both"
    /\ last.op = "add"
    /\ last.manager = "calculators"
    /\ last.ret # Null
    /\ Len(NoteList) = 1
    /\ Len(CalcList) = 1

\* C16: nothing guards the file between the read and the write of an add.
\* The write of a process returns the created record and leaves the
\* collection as exactly the array the process read plus its record: every
\* record stored since that read by another writer is gone.  So both adds of
\* two writers with distinct keys return their record while the collection
\* ends with one of the two.
C16_LostUpdate ==
    [][\A w \in Insts :
          (writers[w].pc = "read" /\ writers'[w].pc = "done") =>
              /\ writers'[w].ret = RecOf(writers[w].rec)
              /\ ListNext = writers[w].arr
              /\ \A n \in 1..Len(List) :
                     ~HasKey(writers[w].arr, List[n][KeyField]) =>
                         ~HasKey(ListNext, List[n][KeyField])]_vars

\* both adds, of distinct keys, returned the created record and the
\* collection holds one record
C16_Witness ==
    /\ \A w \in Insts : writers[w].pc = "done" /\ writers[w].ret # Null
    /\ writers[1].rec[KeyField] # writers[2].rec[KeyField]
    /\ Len(List) = 1

\* the keys of the records of a collection, in array order
KeysOf(arr) == [n \in 1..Len(arr) |-> arr[n][KeyField]]

\* an edit request that validation refuses: the oid of the URL is no integer,
\* manufacturer or body is empty after trimming, grade or batteryType is out
\* of its range
InvalidEdit(param, body) ==
    IF app = "notes" THEN TrimOrEmpty(body.body) = <<>>
    ELSE \/ DoubleOf(Field(param)).k \notin {"int", "bigint"}
         \/ TrimOrEmpty(body.manufacturer) = <<>>
         \/ ~IsIntegerIn(DoubleOf(body.grade), 0, 10)
         \/ ~IsIntegerIn(DoubleOf(body.batteryType), 1, 3)

\* C21: a calculator postEdit (key from the URL) and a note postUpdate leave
\* the keys and the number of records of the collection unchanged whether
\* they succeed or not; when validation fails the stored records are
\* unchanged, and otherwise only the record of the key of the URL may change.
C21_EditKeepsKeys ==
    [][last'.op \in {"postEdit", "postUpdate"} =>
          With(List, LAMBDA before : With(ListNext, LAMBDA after :
              /\ KeysOf(after) = KeysOf(before)
              /\ InvalidEdit(last'.param, last'.body) => after = before
              /\ \A n \in 1..Len(before) :
                     after[n] # before[n] =>
                         /\ app = "calculators" =>
                                String(before[n].oid) = TrimStr(last'.param)
                         /\ app = "notes" => before[n].title = last'.param))]_vars

\* an edit request changed the grade of the stored calculator
C21_Witness ==
    /\ app = "calculators"
    /\ last.op = "postEdit"
    /\ last.resp.kind = "redirect"
    /\ last.called = <<"editCalculator">>
    /\ last.body.grade = Field(<<" ", "5", " ">>)
    /\ Len(List) = 2
    /\ \E n \in 1..2 : List[n].grade = 5 /\ String(List[n].oid) = last.param

(***************************************************************************)
(* Calls on a file in which another writer left records of the same key    *)
(***************************************************************************)
MaxDupRecs == 4

CalculatorsWithRepeatedOid ==
    {<<[oid |-> 1, manufacturer |-> <<"m">>, grade |-> 0, batteryType |-> 1],
       [oid |-> 2, manufacturer |-> <<"m">>, grade |-> 0, batteryType |-> 1],
       [oid |-> 1, manufacturer |-> <<"m">>, grade |-> 10, batteryType |-> 3]>>,
     <<[oid |-> 7, manufacturer |-> <<"m">>, grade |-> 10, batteryType |-> 3],
       [oid |-> 7, manufacturer |-> <<"m">>, grade |-> 10, batteryType |-> 3]>>}

InitDup ==
    /\ app \in {"notes", "calculators"}
    /\ dirExists = TRUE
    /\ noteCache = [i \in Insts |-> <<>>]
    /\ IF app = "notes"
       THEN /\ noteFile \in {FileOf(JSONstringify(arr)) : arr \in NotesWithRepeatedTitle}
            /\ calcFile = NoFile
       ELSE /\ calcFile \in {FileOf(JSONstringify(arr)) :
                                 arr \in CalculatorsWithRepeatedOid}
            /\ noteFile = NoFile
    /\ last = [op |-> "init"]
    /\ writers = [w \in Insts |-> Idle]
    /\ auth = AuthAtStart

DupNoteCall(op, title, body) ==
    /\ app = "notes"
    /\ op = "add" => Len(NoteList) < MaxDupRecs
    /\ With(NoteCall(NoteCtx(Router), op, title, body), LAMBDA r :
           /\ NoteDone(Router, r)
           /\ last' = CallRecord(op, FALSE, title, [body |-> body], r.ret, "none"))

DupCalcCall(op, oid, fields) ==
    /\ app = "calculators"
    /\ op = "add" => Len(CalcList) < MaxDupRecs
    /\ With(CalcCall(CalcCtx, op, oid, fields), LAMBDA r :
           /\ CalcDone(r)
           /\ last' = CallRecord(op, FALSE, oid, fields, r.ret, "none"))

DupNext ==
    \/ \E op \in Ops, title \in Titles, body \in Bodies : DupNoteCall(op, title, body)
    \/ \E op \in Ops, oid \in Oids, fields \in FieldsFault :
           DupCalcCall(op, oid, fields)

SpecDup == InitDup /\ [][DupNext]_vars

\* the places of the records of the key in a collection
PlacesOf(arr, key) == {n \in 1..Len(arr) : arr[n][KeyField] = key}

\* the least of a non-empty set of places
FirstOf(places) == CHOOSE n \in places : \A m \in places : n <= m

\* C22: on a file that holds several records of the key k, getByKey(k)
\* returns the first of them in array order, add with key k is rejected and
\* nothing is written, update(k, f) changes the first of them only and
\* returns it, and delete(k) removes all of them and returns true.
C22_FirstMatch ==
    [][\A key \in Keys :
          (last'.op # "list" /\ last'.key = key
               /\ Cardinality(PlacesOf(List, key)) > 1) =>
              With(List, LAMBDA before : With(ListNext, LAMBDA after :
                  With(FirstOf(PlacesOf(before, key)), LAMBDA first :
                      /\ last'.op = "get" =>
                             /\ last'.ret = RecOf(before[first])
                             /\ after = before
                             /\ FileNext = File
                      /\ last'.op = "add" =>
                             /\ last'.ret = Null
                             /\ after = before
                             /\ FileNext = File
                      /\ last'.op = "update" =>
                             /\ Len(after) = Len(before)
                             /\ after[first] = RecFrom(key, last'.val)
                             /\ last'.ret = RecOf(after[first])
                             /\ \A n \in 1..Len(before) :
                                    n # first => after[n] = before[n]
                      /\ last'.op = "delete" =>
                             /\ last'.ret = BoolOf(TRUE)
                             /\ after = Without(before, KeyField, key)
                             /\ PlacesOf(after, key) = {})))]_vars

\* an update changed the first record of its key and a later record of the
\* key keeps other fields
C22_Witness ==
    /\ last.op = "update"
    /\ last.ret # Null
    /\ \E m, n \in 1..Len(List) :
           /\ m < n
           /\ List[m][KeyField] = last.key
           /\ List[n][KeyField] = last.key
           /\ List[m] = RecFrom(last.key, last.val)
           /\ List[n] # List[m]

(***************************************************************************)
(* Two processes whose add, update and delete run system call by system    *)
(* call: the existence check of ensureStorage, its creating write, the     *)
(* read with the computation on what was read, and the write.  Nothing     *)
(* deletes the file here, so the ensureStorage of the write finds it.      *)
(***************************************************************************)
StepOps == {"add", "update", "delete"}

\* the fields the calls carry; delete takes none
StepFields == IF app = "notes" THEN [body : Bodies] ELSE FieldsFault

StoragePath == IF app = "notes" THEN NoteStoragePath ELSE CalcStoragePath

\* the method op of the manager of process w, run on the file as it was read
CallOn(w, file, op, key, fields) ==
    IF app = "notes"
    THEN NoteCall(NoteCtxOf(TRUE, file, noteCache[w]), op, key, fields.body)
    ELSE CalcCall(CalcCtxOf(TRUE, file), op, key, fields)

InitSteps ==
    /\ app \in {"notes", "calculators"}
    /\ dirExists = FALSE
    /\ noteFile = NoFile
    /\ calcFile = NoFile
    /\ noteCache = [i \in Insts |-> <<>>]
    /\ last = [op |-> "init"]
    /\ writers = [w \in Insts |-> Idle]
    /\ auth = AuthAtStart

\* ensureStorage of the read: mkdir, and fs.existsSync(this.storagePath)
StepCheck(w, op, key, fields) ==
    /\ writers[w].pc = "idle"
    /\ op = "delete" => fields = (CHOOSE f \in StepFields : TRUE)
    /\ op = "add" => Len(ArrayOfText(FileAt(StoragePath).data)) < MaxRecs
    /\ dirExists' = TRUE
    /\ writers' = [writers EXCEPT ![w] =
                      [pc |-> IF FileAt(StoragePath).exists THEN "read" ELSE "create",
                       op |-> op, key |-> key, fields |-> fields,
                       data |-> <<>>, ret |-> Null]]
    /\ UNCHANGED <<app, auth, noteFile, calcFile, noteCache, last>>

\* ensureStorage: fs.writeFileSync(this.storagePath, "[]") after the check
\* found no file
StepCreate(w) ==
    /\ writers[w].pc = "create"
    /\ StoreAt(StoragePath, writeFileSync(FileAt(StoragePath), <<LB, RB>>))
    /\ writers' = [writers EXCEPT ![w].pc = "read"]
    /\ UNCHANGED <<app, auth, dirExists, noteCache, last>>

\* the read of the file and the statements up to the write: the result of
\* the method on what was read, and the text it is about to write
StepRead(w) ==
    /\ writers[w].pc = "read"
    /\ With(CallOn(w, FileAt(StoragePath), writers[w].op, writers[w].key,
                   writers[w].fields), LAMBDA r :
           /\ writers' = [writers EXCEPT
                             ![w].pc = IF r.ret = Null \/ r.ret = BoolOf(FALSE)
                                       THEN "done" ELSE "write",
                             ![w].data = r.ctx.file.data,
                             ![w].ret = r.ret]
           /\ noteCache' = IF app = "notes"
                           THEN [noteCache EXCEPT ![w] = r.ctx.notes]
                           ELSE noteCache)
    /\ UNCHANGED <<app, auth, dirExists, noteFile, calcFile, last>>

\* a write that puts the new record behind what the file holds now
DataOf_Appends(w) ==
    IF writers[w].op # "add" THEN writers[w].data
    ELSE With(ArrayOfText(writers[w].data), LAMBDA mine :
             JSONstringify(Append(ArrayOfText(FileAt(StoragePath).data),
                                  mine[Len(mine)])))

\* the text process w writes: JSON.stringify of the array it holds
DataOf(w) == writers[w].data

\* fs.writeFileSync(this.storagePath, data)
StepWrite(w) ==
    /\ writers[w].pc = "write"
    /\ StoreAt(StoragePath, writeFileSync(FileAt(StoragePath), DataOf(w)))
    /\ writers' = [writers EXCEPT ![w].pc = "done"]
    /\ UNCHANGED <<app, auth, dirExists, noteCache, last>>

\* the method of process w has returned
StepReturn(w) ==
    /\ writers[w].pc = "done"
    /\ writers' = [writers EXCEPT ![w] = Idle]
    /\ UNCHANGED <<app, auth, dirExists, noteFile, calcFile, noteCache, last>>

StepsNext ==
    \E w \in Insts :
        \/ \E op \in StepOps,
              key \in (IF app = "notes" THEN TitlesTwo ELSE OidsFault),
              fields \in StepFields :
               StepCheck(w, op, key, fields)
        \/ StepCreate(w)
        \/ StepRead(w)
        \/ StepWrite(w)
        \/ StepReturn(w)

SpecSteps == InitSteps /\ [][StepsNext]_vars

C24_InitKeepsRecords ==
    [][\A w \in Insts :
          (writers[w].pc = "create" /\ writers'[w].pc = "read") =>
              ArrayOfText(FileNext.data) = ArrayOfText(File.data)]_vars

\* the file exists and holds no JSON array: invalid JSON, or another value
Malformed(file) ==
    file.exists /\ IsOneOf(file.data, InvalidJSONTexts \cup NonArrayTexts)

\* C25: while the file exists but holds invalid JSON or a non-array value,
\* list, getByKey, update and delete leave the file content exactly as it is
\* and answer as on an empty collection (update null, delete false), whereas
\* an add(r) succeeds and replaces the whole file, so that list() afterwards
\* returns exactly the record r.
C25_MalformedFrame ==
    [][(IsCall(last') /\ Malformed(File)) =>
          IF last'.op = "add"
          THEN /\ last'.ret = RecOf(RecFrom(last'.key, last'.val))
               /\ ListNext = <<RecFrom(last'.key, last'.val)>>
               /\ FileNext = FileOf(JSONstringify(ListNext))
          ELSE /\ FileNext = File
               /\ last'.op = "list" => last'.ret = ListOf(<<>>)
               /\ last'.op \in {"get", "update"} => last'.ret = Null
               /\ last'.op = "delete" => last'.ret = BoolOf(FALSE)]_vars

\* an update ran on a file that holds no array: it returned null and the
\* file is as it was
C25_Witness ==
    /\ Malformed(File)
    /\ last.op = "update"
    /\ last.ret = Null

(***************************************************************************)
(* The login flag                                                          *)
(***************************************************************************)
\* the credentials of a login form are accepted: both are non-empty and
\* both equal the pair registered with setUsers
Accepted(a, body) ==
    /\ a.users # Null
    /\ body.email.given /\ body.email.s # <<>> /\ body.email.s = a.users.email
    /\ body.password.given /\ body.password.s # <<>>
    /\ body.password.s = a.users.password

\* C26: the loggedIn flag starts false; it becomes true only through a
\* postLogin whose email and password are both non-empty and both equal the
\* registered pair, and never while no user is registered; a failed postLogin
\* leaves the flag unchanged; getLogout always sets it to false, and nothing
\* else clears it.
C26_LoginFlag ==
    /\ ~isLoggedIn(AuthAtLoad)
    /\ ~isLoggedIn(AuthAtStart)
    /\ \A body \in LoginBodies : ~isLoggedIn(postLogin(AuthAtLoad, body).auth)
    /\ [][/\ (isLoggedIn(auth') /\ ~isLoggedIn(auth))
                 => (last'.op = "postLogin" /\ Accepted(auth, last'.body))
          /\ (last'.op = "postLogin" /\ Accepted(auth, last'.body))
                 => isLoggedIn(auth')
          /\ (last'.op = "postLogin" /\ ~Accepted(auth, last'.body))
                 => isLoggedIn(auth') = isLoggedIn(auth)
          /\ last'.op = "getLogout" => ~isLoggedIn(auth')
          /\ (~isLoggedIn(auth') /\ isLoggedIn(auth)) => last'.op = "getLogout"
          /\ auth'.users = auth.users]_vars

\* a login with the registered pair has set the flag
C26_Witness ==
    /\ last.op = "postLogin"
    /\ Accepted(auth, last.body)
    /\ isLoggedIn(auth)
    /\ last.resp = Redirect("/notes/index")

(***************************************************************************)
(* Notes and authentication                                                *)
(***************************************************************************)
\* the auth state with the loggedIn flag the other way round
Flipped(a) == setLoggedIn(a, ~isLoggedIn(a))

\* C27: every notes route performs the same manager calls and leaves the
\* same notes collection whether loggedIn is true or false, and no note
\* operation changes the loggedIn flag.
C27_NotesIgnoreLogin ==
    [][last'.op \in NoteRouteOps =>
          With(NoteRoute(NoteCtx(Router), Flipped(auth), last'.op, last'.param,
                         last'.body), LAMBDA other :
              /\ other.called = last'.called
              /\ other.ctx.file = noteFile'
              /\ other.ctx.notes = noteCache'[Router]
              /\ other.ctx.dir = dirExists'
              /\ last'.locals.isAuthenticated = isLoggedIn(auth)
              /\ auth' = auth)]_vars

\* a note was stored for a client that is not logged in, next to another
C27_Witness ==
    /\ last.op = "postCreate"
    /\ last.called = <<"addNote">>
    /\ last.resp = Redirect("/notes/index")
    /\ ~last.locals.isAuthenticated
    /\ ~isLoggedIn(auth)
    /\ Len(NoteList) = 2

====
